---- MODULE Spec2Model ----
(***************************************************************************)
(* SpiroGraph: kinematic simulation, trace store, view transform and the   *)
(* frame / effect scheduling of SpirographRenderer and App.                *)
(*                                                                         *)
(* Numbers.  JavaScript doubles are modelled by integers in fixed units:   *)
(*   angles        micro-radians            (dt = 0.002 rad = 2000)        *)
(*   sin / cos     ten-thousandths          (SC = 10000)                   *)
(*   lengths       hundredths of a world unit                              *)
(*   aspects       thousandths              (1.0 = 1000)                   *)
(*   speed         tenths                   (1.0 = 10)                     *)
(* The view transform (x, y, k) is kept in exact rational arithmetic.      *)
(*                                                                         *)
(* Scheduling.  JavaScript runs every handler, effect and frame callback   *)
(* to completion on one thread, so each is one action.  React state set by *)
(* a handler reaches the renderer's effects and closures only at the next  *)
(* commit, which is its own action (Commit).                               *)
(***************************************************************************)
EXTENDS Integers, Sequences, FiniteSets, TLC

(***************************************************************************)
(* Fixed-point arithmetic                                                  *)
(***************************************************************************)
SC == 100 * 100
PI == 3141593
TWO_PI == 2 * PI
HALF_PI == PI \div 2

Abs(a) == IF a < 0 THEN -a ELSE a
Max2(a, b) == IF a >= b THEN a ELSE b
Min2(a, b) == IF a <= b THEN a ELSE b
Sign(a) == IF a < 0 THEN -1 ELSE 1

\* the one element of a singleton; {e(v) : v \in {x}} evaluates x once
Only(S) == CHOOSE x \in S : TRUE

\* Division by a positive b rounding toward zero (\div rounds toward minus
\* infinity).
Quot(a, b) == IF a >= 0 THEN a \div b ELSE -((-a) \div b)

\* Math.sin on [0, pi/2], argument in 1e-4 rad, result times SC.
SinQ(y4) ==
    LET x2 == (y4 * y4) \div SC
        a4 == SC - (x2 \div 72)
        a3 == SC - ((x2 * a4) \div (42 * SC))
        a2 == SC - ((x2 * a3) \div (20 * SC))
        a1 == SC - ((x2 * a2) \div (6 * SC))
    IN  (y4 * a1) \div SC

\* Math.sin, argument in micro-radians, result times SC.
Sin(a) ==
    LET x == a % TWO_PI
    IN  IF x <= HALF_PI THEN SinQ(x \div 100)
        ELSE IF x <= PI THEN SinQ((PI - x) \div 100)
        ELSE IF x <= PI + HALF_PI THEN -SinQ((x - PI) \div 100)
        ELSE -SinQ((TWO_PI - x) \div 100)

\* Math.cos, argument in micro-radians, result times SC.
Cos(a) == Sin(a + HALF_PI)

\* Newton's iteration from a start above the root
RECURSIVE SqrtIter(_, _)
SqrtIter(n, x) ==
    LET y == (x + n \div x) \div 2
    IN  IF y >= x THEN x ELSE SqrtIter(n, y)

\* a power of two above the root of n < 2^31
SqrtStart(n) ==
    IF n < 2^8 THEN 2^4
    ELSE IF n < 2^12 THEN 2^6
    ELSE IF n < 2^16 THEN 2^8
    ELSE IF n < 2^20 THEN 2^10
    ELSE IF n < 2^22 THEN 2^11
    ELSE IF n < 2^24 THEN 2^12
    ELSE IF n < 2^26 THEN 2^13
    ELSE IF n < 2^28 THEN 2^14
    ELSE 2^16

\* Math.sqrt on integers (floor).
Sqrt(n) == IF n = 0 THEN 0 ELSE SqrtIter(n, SqrtStart(n))

\* atan of a ratio z in [0, 1] (z times SC), result in micro-radians.
AtanUnit(z) ==
    LET w == (z * (SC - z)) \div SC
        c == 2447 + ((663 * z) \div SC)
    IN  ((7854 * z) \div 100) + ((w * c) \div 100)

\* Math.atan2(y, x) in micro-radians.  yNegZero tells the sign of a zero y
\* (JavaScript distinguishes -0 from +0: atan2(-0, -1) = -pi).
Atan2(y, x, yNegZero) ==
    LET ay == Abs(y)
        ax == Abs(x)
        a  == IF ax = 0 /\ ay = 0 THEN 0
              ELSE IF ay <= ax THEN AtanUnit((ay * SC) \div ax)
              ELSE HALF_PI - AtanUnit((ax * SC) \div ay)
        yNeg == y < 0 \/ (y = 0 /\ yNegZero)
    IN  IF x >= 0 THEN (IF yNeg THEN -a ELSE a)
        ELSE (IF yNeg THEN a - PI ELSE PI - a)

(***************************************************************************)
(* Exact rationals [n, d] in lowest terms, d > 0: the view transform       *)
(***************************************************************************)
RECURSIVE Gcd(_, _)
Gcd(a, b) == IF b = 0 THEN a ELSE Gcd(b, a % b)

Rat(n, d) ==
    LET g == Gcd(Abs(n), Abs(d))
        s == IF d < 0 THEN -1 ELSE 1
    IN  [n |-> (s * n) \div g, d |-> (s * d) \div g]

RInt(i) == [n |-> i, d |-> 1]
RAdd(a, b) == Rat(a.n * b.d + b.n * a.d, a.d * b.d)
RSub(a, b) == Rat(a.n * b.d - b.n * a.d, a.d * b.d)
RMul(a, b) == Rat(a.n * b.n, a.d * b.d)
RDiv(a, b) == Rat(a.n * b.d, a.d * b.n)
RLt(a, b) == a.n * b.d < b.n * a.d
RLeq(a, b) == a.n * b.d <= b.n * a.d
RMax(a, b) == IF RLeq(b, a) THEN a ELSE b
RMin(a, b) == IF RLeq(a, b) THEN a ELSE b
RAbs(a) == [n |-> Abs(a.n), d |-> a.d]

(***************************************************************************)
(* Kinematics engine (SpirographRenderer: MATH ENGINE HELPERS)             *)
(*   t, u, phi : micro-radians;  R, r, d, coordinates : hundredths;        *)
(*   sAspect, rAspect : thousandths                                        *)
(***************************************************************************)
\* const dt = 0.002
dt == 2000

\* radius * aspect, in hundredths
Scaled(radius, aspect) == Quot(radius * aspect, 1000)

getGeometry(t, u, R, r, d, sAspect, rAspect) ==
    LET sx  == Quot(R * Cos(t), SC)
        sy  == Quot(Scaled(R, sAspect) * Sin(t), SC)
        stx == Quot((-R) * Sin(t), SC)
        sty == Quot(Scaled(R, sAspect) * Cos(t), SC)
        \* -R * sin(t) is -0 when sin(t) is +0
        alpha == Atan2(stx, -sty, Sin(t) >= 0)
        rtx == Quot((-r) * Sin(u), SC)
        rty == Quot(Scaled(r, rAspect) * Cos(u), SC)
        beta == Atan2(rtx * (-1), rty, Sin(u) < 0)
        phi == alpha - beta + PI
        rcx == Quot(r * Cos(u), SC)
        rcy == Quot(Scaled(r, rAspect) * Sin(u), SC)
        cosPhi == Cos(phi)
        sinPhi == Sin(phi)
        rotRcx == Quot(rcx * cosPhi - rcy * sinPhi, SC)
        rotRcy == Quot(rcx * sinPhi + rcy * cosPhi, SC)
        cx == sx - rotRcx
        cy == sy - rotRcy
        px == cx + Quot(d * cosPhi, SC)
        py == cy + Quot(d * sinPhi, SC)
    IN  [px |-> px, py |-> py, cx |-> cx, cy |-> cy, phi |-> phi,
         contactX |-> sx, contactY |-> sy]

\* phi = t * (1 - R / r); t is a multiple of one milli-radian here.
calculateExactStep(t, R, r, d) ==
    LET cx  == Quot((R - r) * Cos(t), SC)
        cy  == Quot((R - r) * Sin(t), SC)
        phi == Quot((t \div 1000) * (SC - Quot(R * SC, r)), 10)
        px  == cx + Quot(d * Cos(phi), SC)
        py  == cy + Quot(d * Sin(phi), SC)
    IN  [px |-> px, py |-> py, cx |-> cx, cy |-> cy, newU |-> 0, phi |-> phi,
         contactX |-> Quot(R * Cos(t), SC), contactY |-> Quot(R * Sin(t), SC)]

\* |tangent| of the ellipse at angle, in tenths
getEllipseMetric(angle, radius, aspect) ==
    LET dx == Quot((-radius) * Sin(angle), SC * 10)
        dy == Quot(Scaled(radius, aspect) * Cos(angle), SC * 10)
    IN  Sqrt(dx * dx + dy * dy)

\* statorSpeed / (rotorSpeed || 0.0001), times SC
getDerivative(t, u, R, sAspect, r, rAspect) ==
    LET statorSpeed == getEllipseMetric(t, R, sAspect)
        rotorSpeed  == getEllipseMetric(u, r, rAspect)
    IN  IF rotorSpeed = 0 THEN statorSpeed * 1000 * SC
        ELSE Quot(statorSpeed * SC, rotorSpeed)

\* an integrator whose weights sum to 4 instead of 6
rk4Unweighted(t, h, currentU, R, r, sAspect, rAspect) ==
    Only({ Only({ Only({ Only({
        currentU + Quot((h \div 2) * (k1 + k2 + k3 + k4), 3 * SC)
        : k4 \in {getDerivative(t + h, currentU + Quot(h * k3, SC),
                                R, sAspect, r, rAspect)} })
        : k3 \in {getDerivative(t + h \div 2, currentU + Quot(Quot(h * k2, SC), 2),
                                R, sAspect, r, rAspect)} })
        : k2 \in {getDerivative(t + h \div 2, currentU + Quot(Quot(h * k1, SC), 2),
                                R, sAspect, r, rAspect)} })
        : k1 \in {getDerivative(t, currentU, R, sAspect, r, rAspect)} })

\* RK4 on du/dt: currentU + (h / 6) * (k1 + 2 * k2 + 2 * k3 + k4)
rk4(t, h, currentU, R, r, sAspect, rAspect) ==
    Only({ Only({ Only({ Only({
        currentU + Quot((h \div 2) * (k1 + 2 * k2 + 2 * k3 + k4), 3 * SC)
        : k4 \in {getDerivative(t + h, currentU + Quot(h * k3, SC),
                                R, sAspect, r, rAspect)} })
        : k3 \in {getDerivative(t + h \div 2, currentU + Quot(Quot(h * k2, SC), 2),
                                R, sAspect, r, rAspect)} })
        : k2 \in {getDerivative(t + h \div 2, currentU + Quot(Quot(h * k1, SC), 2),
                                R, sAspect, r, rAspect)} })
        : k1 \in {getDerivative(t, currentU, R, sAspect, r, rAspect)} })

\* One RK4 step of du/dt, then the geometry at (t + dt, newU).
calculatePhysicsStep(t, h, currentU, R, r, d, sAspect, rAspect) ==
    Only({ [px |-> geom.px, py |-> geom.py, cx |-> geom.cx, cy |-> geom.cy,
            phi |-> geom.phi, contactX |-> geom.contactX,
            contactY |-> geom.contactY, newU |-> newU]
           : <<newU, geom>> \in
               { <<u1, getGeometry(t + h, u1, R, r, d, sAspect, rAspect)>>
                 : u1 \in {rk4(t, h, currentU, R, r, sAspect, rAspect)} } })

(***************************************************************************)
(* Bounds of the model                                                     *)
(***************************************************************************)
\* longest trace a run may accumulate
MaxPoints == 6
\* config edits and random-pattern actions per run
MaxEdits == 1
\* wheel, pinch, pan and button operations on the view transform per run
MaxViewOps == 2
\* pointer down / up events per run
MaxPointerOps == 2
\* clear, play/pause, theme, export, layout and lost-surface events per run
MaxSignals == 3
\* input events of all kinds per run
MaxOps == 3

(***************************************************************************)
(* State                                                                   *)
(***************************************************************************)
VARIABLES
    \* App: useState
    config, isPlaying, shouldClear, downloadState, theme, viewTransform,
    \* what the last commit rendered: the props the closures of animate and of
    \* the handlers captured; cfgDirty: setConfig was called since
    rConfig, rIsPlaying, rTheme, cfgDirty, needsRender, mounted,
    \* SpirographRenderer: useRef
    transformRef, angleRef, rotorParamRef, rotorRotationRef, pointsRef,
    pointersRef, prevPinchDistRef,
    \* a frame callback is scheduled (requestRef holds a live request)
    framePending,
    \* DOM: container client size, canvas pixel size, what the canvases show
    container, canvas, screen,
    \* images handed to the save step
    saved,
    \* budget spent
    nEdits, nViewOps, nPointerOps, nSignals,
    \* history: how the last frame callback ended, the clears applied so far,
    \* the length of the trace the last of them emptied, the key of the last
    \* updateConfig call ("randomize" after handleRandomize)
    lastFrame, nClears, clearedLen, lastEdit,
    \* history of a gesture: the transform and the pointer position when the
    \* pointer that is down alone became the only one; the scale and the distance
    \* when the pinch under way recorded its first distance; the pointer of the
    \* last pointer event if that was a move
    panOrigin, pinchOrigin, movedPointer,
    \* the window size read by Reset View if that was the last click on a view
    \* button
    resetInput,
    \* the animation-frame callbacks requested and neither run nor cancelled,
    \* each with its id and the props its closure captured; the id of the last
    \* request
    rafQueue, requestRef

appVars == <<config, isPlaying, shouldClear, downloadState, theme, viewTransform>>
renderVars == <<rConfig, rIsPlaying, rTheme, cfgDirty, needsRender, mounted>>
simVars == <<angleRef, rotorParamRef, rotorRotationRef, pointsRef>>
gestureVars == <<pointersRef, prevPinchDistRef>>
domVars == <<container, canvas, screen>>
budgetVars == <<nEdits, nViewOps, nPointerOps, nSignals>>
viewHist == <<panOrigin, pinchOrigin, movedPointer, resetInput>>
loopVars == <<rafQueue, requestRef>>
gestureHist == <<viewHist, loopVars>>
histVars == <<lastFrame, nClears, clearedLen, lastEdit, gestureHist>>
vars == <<appVars, renderVars, simVars, transformRef, gestureVars, framePending,
          domVars, saved, budgetVars, histVars>>

(***************************************************************************)
(* Configurations                                                          *)
(***************************************************************************)
\* numerator / denominator: undefined (read only through a truthiness test,
\* which 0 fails like undefined)
Undefined == 0

MkConfig(R, r, d, sA, rA, n, dn) ==
    [outerRadius |-> R, innerRadius |-> r, penOffset |-> d, penColor |-> "#22c55e",
     speed |-> 10, opacity |-> 10, lineWidth |-> Rat(3, 2), showGears |-> TRUE,
     statorAspect |-> sA, rotorAspect |-> rA, numerator |-> n, denominator |-> dn]

\* generateRandomConfig: outerRadius in 60..109, innerRadius = floor(R * n / d),
\* penOffset = floor(r * (0.4 .. 1.2)), aspects in 0.6 .. 1.4, speed 1, gears shown
RandomConfigs ==
    { MkConfig(100 * 100, 40 * 100, 30 * 100, 1000, 1000, 2, 5),
      MkConfig(60 * 100, 45 * 100, 20 * 100, 600, 1000, 3, 4) }

\* window.innerWidth x window.innerHeight; container client sizes; devicePixelRatio
Window == [w |-> 2560, h |-> 1440]
ContainerSizes ==
    { [w |-> 800, h |-> 600], [w |-> 400, h |-> 300], [w |-> 0, h |-> 0] }
Dpr == 2

Transform(x, y, k) == [x |-> x, y |-> y, k |-> k]

\* no Reset View click to remember
NoReset == [done |-> FALSE, w |-> 0, h |-> 0]

(***************************************************************************)
(* App helpers                                                             *)
(***************************************************************************)
\* a scale that fits the trace and the stator but not the rotor
calculateOptimalScaleNoGears(cfg, width, height) ==
    LET sAspect == IF cfg.statorAspect = 0 THEN 1000 ELSE cfg.statorAspect
        traceExtent == Abs(cfg.outerRadius - cfg.innerRadius) + cfg.penOffset
        statorExtent == Scaled(cfg.outerRadius, Max2(1000, sAspect))
        maxExtent == Max2(traceExtent, statorExtent)
        scale == Rat(Min2(width, height) * 45,
                     IF maxExtent = 0 THEN 100 ELSE maxExtent)
    IN  RMax(Rat(1, 10), RMin(RInt(5), scale))

\* (minDim / 2 * 0.9) / (maxExtent || 1), clamped to [0.1, 5]
calculateOptimalScale(cfg, width, height) ==
    LET R == cfg.outerRadius
        r == cfg.innerRadius
        d == cfg.penOffset
        sAspect == IF cfg.statorAspect = 0 THEN 1000 ELSE cfg.statorAspect
        rAspect == IF cfg.rotorAspect = 0 THEN 1000 ELSE cfg.rotorAspect
        maxR == Scaled(R, Max2(1000, sAspect))
        maxr == Scaled(r, Max2(1000, rAspect))
        centerDist == Abs(R - r)
        traceExtent == centerDist + d
        gearExtent == IF cfg.showGears THEN centerDist + maxr ELSE 0
        statorExtent == maxR
        maxExtent == Max2(Max2(traceExtent, gearExtent), statorExtent)
        minDim == Min2(width, height)
        scale == Rat(minDim * 45, IF maxExtent = 0 THEN 100 ELSE maxExtent)
    IN  RMax(Rat(1, 10), RMin(RInt(5), scale))

\* max(0.1, min(30, max(1.1, minDim / 450) / (k || 1)))
calculateResponsiveLineWidth(k, width, height) ==
    LET minDim == Min2(width, height)
        targetVisualWidth == RMax(Rat(11, 10), Rat(minDim, 450))
        computedLineWidth == RDiv(targetVisualWidth, IF k.n = 0 THEN RInt(1) ELSE k)
    IN  RMax(Rat(1, 10), RMin(RInt(30), computedLineWidth))

(***************************************************************************)
(* Initial state: App and SpirographRenderer constructed, first render     *)
(* done, no effect run yet                                                 *)
(***************************************************************************)
NoDownload == [active |-> FALSE, theme |-> "unset", withStats |-> FALSE]
Blank == [trace |-> <<>>, gears |-> [shown |-> FALSE]]
NoPointers == [id \in {} |-> [x |-> 0, y |-> 0]]
Null == -1

Init ==
    /\ config \in RandomConfigs
    /\ isPlaying = TRUE
    /\ shouldClear = FALSE
    /\ downloadState = NoDownload
    /\ theme = "light"
    /\ viewTransform = Transform(RInt(0), RInt(0), RInt(1))
    /\ rConfig = config
    /\ rIsPlaying = TRUE
    /\ rTheme = "light"
    /\ cfgDirty = FALSE
    /\ needsRender = TRUE
    /\ mounted = FALSE
    /\ transformRef = Transform(RInt(0), RInt(0), RInt(1))
    /\ angleRef = 0
    /\ rotorParamRef = 0
    /\ rotorRotationRef = 0
    /\ pointsRef = <<>>
    /\ pointersRef = NoPointers
    /\ prevPinchDistRef = Null
    /\ framePending = FALSE
    /\ container = [w |-> 800, h |-> 600]
    /\ canvas = [w |-> container.w * Dpr, h |-> container.h * Dpr]
    /\ screen = Blank
    /\ saved = <<>>
    /\ nEdits = 0
    /\ nViewOps = 0
    /\ nPointerOps = 0
    /\ nSignals = 0
    /\ lastFrame = "none"
    /\ nClears = 0
    /\ clearedLen = Null
    /\ lastEdit = "none"
    /\ panOrigin = Null
    /\ pinchOrigin = Null
    /\ movedPointer = Null
    /\ resetInput = NoReset
    /\ rafQueue = {}
    /\ requestRef = 0

(***************************************************************************)
(* The frame callback                                                      *)
(***************************************************************************)
\* a test that is content with one circular gear
isCircularEither(cfg) ==
    Abs(cfg.statorAspect - 1000) < 5 \/ Abs(cfg.rotorAspect - 1000) < 5

\* Math.abs(sAspect - 1.0) < 0.005 && Math.abs(rAspect - 1.0) < 0.005
isCircular(cfg) ==
    Abs(cfg.statorAspect - 1000) < 5 /\ Abs(cfg.rotorAspect - 1000) < 5

\* Math.ceil(a / b), b > 0
Ceil(a, b) == -((-a) \div b)

\* Math.floor in place of Math.ceil
StepsFloor(cfg) == (cfg.speed * 5) \div 10

\* const steps = Math.ceil(speed * 5)
Steps(cfg) == Ceil(cfg.speed * 5, 10)

\* The simulation state as one value: [t, u, phi, points]
Sim(t, u, phi, points) == [t |-> t, u |-> u, phi |-> phi, points |-> points]

\* a loop body that overwrites the trace instead of appending to it
SubStepOverwrite(sim, cfg) ==
    Sim(sim.t + dt, sim.u, sim.phi, <<[x |-> sim.t, y |-> sim.u]>>)

\* a pass that advances t and appends no point
SubStepSilent(sim, cfg) == Sim(sim.t + dt, sim.u, sim.phi, sim.points)

\* a loop body whose exact branch stores a rotor parameter as well
SubStepTracksRotor(sim, cfg) ==
    IF isCircular(cfg)
    THEN Only({ Sim(sim.t + dt, sim.t + dt, sim.phi,
                    Append(sim.points, [x |-> state.px, y |-> state.py]))
                : state \in {calculateExactStep(sim.t + dt, cfg.outerRadius,
                                                cfg.innerRadius, cfg.penOffset)} })
    ELSE Only({ Sim(sim.t + dt, state.newU, state.phi,
                    Append(sim.points, [x |-> state.px, y |-> state.py]))
                : state \in {calculatePhysicsStep(sim.t, dt, sim.u,
                                 cfg.outerRadius, cfg.innerRadius, cfg.penOffset,
                                 cfg.statorAspect, cfg.rotorAspect)} })

\* One pass of the loop body
SubStep(sim, cfg) ==
    LET R == cfg.outerRadius
        r == cfg.innerRadius
        d == cfg.penOffset
    IN  IF isCircular(cfg)
        THEN Only({ Sim(sim.t + dt, sim.u, sim.phi,
                        Append(sim.points, [x |-> state.px, y |-> state.py]))
                    : state \in {calculateExactStep(sim.t + dt, R, r, d)} })
        ELSE Only({ Sim(sim.t + dt, state.newU, state.phi,
                        Append(sim.points, [x |-> state.px, y |-> state.py]))
                    : state \in {calculatePhysicsStep(sim.t, dt, sim.u, R, r, d,
                                     cfg.statorAspect, cfg.rotorAspect)} })

\* for (let i = 0; i < steps; i++) { ... }
RECURSIVE StepLoop(_, _, _, _)
StepLoop(sim, cfg, i, steps) ==
    IF i < steps
    THEN Only({ StepLoop(next, cfg, i + 1, steps) : next \in {SubStep(sim, cfg)} })
    ELSE sim

\* a frame that loses a micro-radian of stator angle at its end
AdvanceDrift(sim, cfg, playing) ==
    IF ~playing THEN sim
    ELSE Only({ [after EXCEPT !.t = @ - 1]
                : after \in {StepLoop(sim, cfg, 0, Steps(cfg))} })

\* if (isPlaying) { loop; if (isCircular) rotorRotationRef = exact phi }
Advance(sim, cfg, playing) ==
    IF ~playing THEN sim
    ELSE Only({ IF isCircular(cfg)
                THEN [after EXCEPT !.phi = calculateExactStep(after.t, cfg.outerRadius,
                                               cfg.innerRadius, cfg.penOffset).phi]
                ELSE after
                : after \in {StepLoop(sim, cfg, 0, Steps(cfg))} })

\* trace indices (0-based) the polyline visits: moveTo(points[0]), then every
\* stride-th from 1, then the last one again when striding
RECURSIVE StrideFrom(_, _, _)
StrideFrom(i, len, stride) ==
    IF i < len THEN <<i>> \o StrideFrom(i + stride, len, stride) ELSE <<>>

\* a stroke that ends at the last strided point
PolylineTruncated(len, k) ==
    IF len > 0
    THEN <<0>> \o StrideFrom(1, len, IF RLt(k, Rat(1, 5)) THEN 5 ELSE 1)
    ELSE <<>>

Polyline(len, k) ==
    LET stride == IF RLt(k, Rat(1, 5)) THEN 5 ELSE 1
    IN  IF len > 0
        THEN <<0>> \o StrideFrom(1, len, stride)
                   \o (IF stride > 1 THEN <<len - 1>> ELSE <<>>)
        ELSE <<>>

\* the gear overlay of the live canvas
Gears(sim, cfg) ==
    IF ~cfg.showGears THEN [shown |-> FALSE]
    ELSE Only({ [shown |-> TRUE, cx |-> state.cx, cy |-> state.cy, phi |-> state.phi,
                 px |-> state.px, py |-> state.py,
                 contactX |-> state.contactX, contactY |-> state.contactY]
                : state \in
                    { IF isCircular(cfg)
                      THEN calculateExactStep(sim.t, cfg.outerRadius, cfg.innerRadius,
                                              cfg.penOffset)
                      ELSE getGeometry(sim.t, sim.u, cfg.outerRadius, cfg.innerRadius,
                                       cfg.penOffset, cfg.statorAspect,
                                       cfg.rotorAspect) } })

\* what one frame leaves on the two canvases
Draw(sim, cfg, tr) ==
    [trace |-> Polyline(Len(sim.points), tr.k), gears |-> Gears(sim, cfg)]

CurrentSim == Sim(angleRef, rotorParamRef, rotorRotationRef, pointsRef)

\* getContext('2d') returned null: the frame returns at once
AnimateNoContext ==
    /\ framePending
    /\ nSignals < MaxSignals
    /\ nEdits + nViewOps + nPointerOps + nSignals < MaxOps
    /\ framePending' = FALSE
    /\ nSignals' = nSignals + 1
    /\ lastFrame' = "lost"
    /\ UNCHANGED <<lastEdit, gestureHist>>
    /\ UNCHANGED <<appVars, renderVars, simVars, transformRef, gestureVars,
                   domVars, saved, nEdits, nViewOps, nPointerOps, nClears,
                   clearedLen>>

\* width === 0 || height === 0: reschedule and return
AnimateZeroSize ==
    /\ framePending
    /\ (container.w = 0 \/ container.h = 0)
    /\ framePending' = TRUE
    /\ lastFrame' = "skipped"
    /\ UNCHANGED <<lastEdit, gestureHist>>
    /\ UNCHANGED <<appVars, renderVars, simVars, transformRef, gestureVars,
                   domVars, saved, budgetVars, nClears, clearedLen>>

\* a full frame: simulate if playing, draw, reschedule
AnimateFrame ==
    /\ framePending
    /\ container.w # 0 /\ container.h # 0
    /\ rIsPlaying => Len(pointsRef) + Steps(rConfig) <= MaxPoints
    /\ \E after \in {Advance(CurrentSim, rConfig, rIsPlaying)} :
           /\ angleRef' = after.t
           /\ rotorParamRef' = after.u
           /\ rotorRotationRef' = after.phi
           /\ pointsRef' = after.points
           /\ screen' = Draw(after, rConfig, transformRef)
    /\ framePending' = TRUE
    /\ lastFrame' = IF rIsPlaying THEN "played" ELSE "paused"
    /\ UNCHANGED <<lastEdit, gestureHist>>
    /\ UNCHANGED <<appVars, renderVars, transformRef, gestureVars, container,
                   canvas, saved, budgetVars, nClears, clearedLen>>

animate == AnimateNoContext \/ AnimateZeroSize \/ AnimateFrame

(***************************************************************************)
(* Commit: React renders the queued state and runs the effects, the        *)
(* renderer's in the order they are declared, then App's mount effect      *)
(***************************************************************************)
\* calculateEllipseCircumference divided by pi (Ramanujan's approximation;
\* 2 * radius when aspect === 1), in hundredths
calculateEllipseCircumference(radius, aspect) ==
    IF aspect = 1000 THEN 2 * radius
    ELSE Only({ Only({ (a + b) + Quot((a + b) * Quot(3 * h * SC,
                                                  10 * SC + Sqrt((4 * SC - 3 * h) * SC)),
                                    SC)
                       : h \in {Quot(Quot((a - b) * SC, a + b)
                                     * Quot((a - b) * SC, a + b), SC)} })
                : a \in {radius}, b \in {Scaled(radius, aspect)} })

\* Math.floor in place of Math.round
RoundRatioDown(innerC, outerC, d) == (innerC * d) \div outerC

\* Math.round(val * d) for val = innerC / outerC
RoundRatio(innerC, outerC, d) == (2 * innerC * d + outerC) \div (2 * outerC)

\* Math.abs(val - n / d) times outerC * d
RatioError(innerC, outerC, n, d) == Abs(innerC * d - n * outerC)

\* for (let d = 1; d <= 1000; d++) { ... if (error < minError) ... } over the
\* denominators lo..hi: the first pair of least error.  The loop is folded by
\* halves; a later pair replaces an earlier one only when strictly closer.
RECURSIVE RatioSearch(_, _, _, _)
RatioSearch(innerC, outerC, lo, hi) ==
    IF lo = hi THEN [n |-> RoundRatio(innerC, outerC, lo), d |-> lo]
    ELSE Only({ IF RatioError(innerC, outerC, later.n, later.d) * first.d
                       < RatioError(innerC, outerC, first.n, first.d) * later.d
                THEN later ELSE first
                : first \in {RatioSearch(innerC, outerC, lo, (lo + hi) \div 2)},
                  later \in {RatioSearch(innerC, outerC, (lo + hi) \div 2 + 1, hi)} })

\* the fields of the config the ratio search reads
RatioKey(cfg) ==
    <<cfg.outerRadius, cfg.statorAspect, cfg.innerRadius, cfg.rotorAspect>>

\* the search, for a key
RatioOfKey(key) ==
    RatioSearch(calculateEllipseCircumference(key[3], key[4]),
                calculateEllipseCircumference(key[1], key[2]), 1, 1000)

\* an export that strides through the trace like a zoomed-out frame
ExportPolylineStrided(points) ==
    [i \in 1..Len(Polyline(Len(points), Rat(1, 10)))
       |-> points[Polyline(Len(points), Rat(1, 10))[i] + 1]]

\* 2. Draw the trace: moveTo(points[0]), then lineTo every later point; no
\* path when the trace is empty
ExportPolyline(points) ==
    IF Len(points) > 0
    THEN <<points[1]>> \o [i \in 1..(Len(points) - 1) |-> points[i + 1]]
    ELSE <<>>

\* 3. Draw Initial Gears: the gears at t = 0, stator, rotor, arm, pen holder,
\* pen tip and contact point
ExportGears(cfg, k, downloadTheme) ==
    Only({ [shown |-> TRUE,
            stator |-> [rx |-> cfg.outerRadius,
                        ry |-> Scaled(cfg.outerRadius, cfg.statorAspect),
                        lineWidth |-> RMul(RDiv(RInt(2), k), RInt(2)),
                        stroke |-> IF downloadTheme = "dark" THEN "#475569"
                                   ELSE "#cbd5e1"],
            rotor |-> [cx |-> state.cx, cy |-> state.cy, rx |-> cfg.innerRadius,
                       ry |-> Scaled(cfg.innerRadius, cfg.rotorAspect),
                       phi |-> state.phi, lineWidth |-> RDiv(RInt(2), k),
                       stroke |-> IF downloadTheme = "dark" THEN "#64748b"
                                  ELSE "#94a3b8"],
            arm |-> <<[x |-> state.cx, y |-> state.cy], [x |-> state.px, y |-> state.py]>>,
            pen |-> [x |-> state.px, y |-> state.py,
                     tipRadius |-> RDiv(cfg.lineWidth, RInt(2)),
                     holderRadius |-> RMul(RDiv(cfg.lineWidth, RInt(2)), Rat(410, 255)),
                     fill |-> cfg.penColor],
            contact |-> [x |-> state.contactX, y |-> state.contactY,
                         radius |-> RDiv(RInt(6), k), fill |-> "#ef4444"]]
           : state \in
               { IF isCircular(cfg)
                 THEN calculateExactStep(0, cfg.outerRadius, cfg.innerRadius,
                                         cfg.penOffset)
                 ELSE getGeometry(0, 0, cfg.outerRadius, cfg.innerRadius,
                                  cfg.penOffset, cfg.statorAspect, cfg.rotorAspect) } })

\* ratioText: the stored hint when both parts are truthy, else the search
ratioText(cfg) ==
    IF cfg.numerator # Undefined /\ cfg.denominator # Undefined
    THEN [n |-> cfg.numerator, d |-> cfg.denominator]
    ELSE RatioOfKey(RatioKey(cfg))

\* Math.max(12, width / 70)
footerFontSize(width) == RMax(RInt(12), Rat(width, 70))

\* 4. Draw Stats Overlay: nine lines in a box anchored bottom-left above the
\* footer (the box is as wide as its widest line, which the font decides)
ExportStats(cfg, downloadTheme, width, height) ==
    [shown |-> TRUE,
     lines |-> [color |-> cfg.penColor, thickness |-> cfg.lineWidth,
                opacity |-> cfg.opacity, ratio |-> ratioText(cfg),
                statorRadius |-> cfg.outerRadius, rotorRadius |-> cfg.innerRadius,
                penOffset |-> cfg.penOffset, statorEccentricity |-> cfg.statorAspect,
                rotorEccentricity |-> cfg.rotorAspect],
     boxX |-> 20,
     boxY |-> RSub(RInt(height - (9 * 18 + 12 * 2) - 20),
                   RAdd(RMul(footerFontSize(width), Rat(18, 10)), RInt(10))),
     boxHeight |-> 9 * 18 + 12 * 2,
     panel |-> downloadTheme # "dark",
     fill |-> IF downloadTheme = "dark" THEN "#ffffff" ELSE "#000000"]

\* 5. Draw Footer (Watermark): bottom-centre
ExportFooter(downloadTheme, width, height) ==
    [text |-> "Play at https://IgorMineyev.github.io/SpiroGraph/",
     fontSize |-> footerFontSize(width),
     x |-> Rat(width, 2),
     y |-> RSub(RInt(height), RMul(footerFontSize(width), Rat(8, 10))),
     fill |-> IF downloadTheme = "dark" THEN "#475569" ELSE "#94a3b8"]

\* an export that returns before drawing anything when the trace is empty
ExportImageNeedsTrace(points, tr, cfg, req, currentTheme, size) ==
    IF points = <<>>
    THEN [width |-> size.w, height |-> size.h, background |-> "none",
          polyline |-> <<>>, gears |-> [shown |-> FALSE],
          stats |-> [shown |-> FALSE], footer |-> [text |-> ""]]
    ELSE [width |-> size.w, height |-> size.h,
          background |-> IF req.theme = "dark" THEN "#020617" ELSE "#ffffff",
          polyline |-> ExportPolyline(points), gears |-> [shown |-> req.withStats],
          stats |-> [shown |-> req.withStats],
          footer |-> ExportFooter(req.theme, size.w, size.h)]

\* Handle Download: the image drawn on the temporary canvas, which takes the
\* trace canvas's pixel size, from the trace, the synced transform, the
\* rendered config and the requested theme / annotation
ExportImage(points, tr, cfg, req, currentTheme, size) ==
    Only({ [width |-> size.w, height |-> size.h,
            background |-> IF downloadTheme = "dark" THEN "#020617" ELSE "#ffffff",
            cx |-> RAdd(Rat(size.w, 2), RMul(tr.x, RInt(Dpr))),
            cy |-> RAdd(Rat(size.h, 2), RMul(tr.y, RInt(Dpr))),
            sk |-> RMul(tr.k, RInt(Dpr)),
            strokeStyle |-> cfg.penColor, lineWidth |-> cfg.lineWidth,
            globalAlpha |-> cfg.opacity,
            polyline |-> ExportPolyline(points),
            gears |-> IF req.withStats THEN ExportGears(cfg, tr.k, downloadTheme)
                      ELSE [shown |-> FALSE],
            stats |-> IF req.withStats
                      THEN ExportStats(cfg, downloadTheme, size.w, size.h)
                      ELSE [shown |-> FALSE],
            footer |-> ExportFooter(downloadTheme, size.w, size.h)]
           : downloadTheme \in {IF req.theme = "unset" THEN currentTheme
                                ELSE req.theme} })

\* values Date.now() can return
Timestamps == {1, 2}

\* link.download / link.href / link.click(): the file handed to the browser,
\* with the inputs the image was drawn from
ExportFile(image, withStats, timestamp, inputs) ==
    [image |-> image,
     filename |-> [product |-> "IgorMineyevSpiroGraph", timestamp |-> timestamp,
                   withData |-> withStats, extension |-> "png"],
     inputs |-> inputs]

\* a clear that forgets to reset the stator angle
ClearedSimKeepsAngle == Sim(angleRef, 0, 0, <<>>)

\* a clear that forgets to reset the rotor rotation
ClearedSimKeepsRotation == Sim(0, 0, rotorRotationRef, <<>>)

\* a clear that resets the state of the simulation and keeps the points
ClearedSimKeepsTrace == Sim(0, 0, 0, pointsRef)

\* Handle Clear: the four refs after the effect
ClearedSim == Sim(0, 0, 0, <<>>)

\* a callback of the animate closure that captured cfg and playing
Callback(id, cfg, playing) == [id |-> id, cfg |-> cfg, playing |-> playing]

\* an effect whose cleanup cancels nothing
RescheduleNoCancel(queue, ref, cfg, playing) ==
    queue \cup {Callback(ref + 1, cfg, playing)}

\* the loop effect re-run: cancelAnimationFrame(requestRef.current), then
\* requestRef.current = requestAnimationFrame(animate)
Reschedule(queue, ref, cfg, playing) ==
    {q \in queue : q.id # ref} \cup {Callback(ref + 1, cfg, playing)}

\* useEffect(..., [animate]) at a commit
ScheduleLoop(animateChanged) ==
    /\ rafQueue' = IF animateChanged
                   THEN Reschedule(rafQueue, requestRef, config, isPlaying)
                   ELSE rafQueue
    /\ requestRef' = IF animateChanged THEN requestRef + 1 ELSE requestRef
    /\ framePending' = (rafQueue' # {})

\* the loop effect when each frame is the only callback pending
KeepLoop(animateChanged) ==
    /\ framePending' = IF animateChanged THEN TRUE ELSE framePending
    /\ UNCHANGED loopVars

\* surfaces: what tempCanvas.getContext('2d') may return in Handle Download,
\* TRUE for a context and FALSE for null
\* queued: the frame requests are kept one by one in rafQueue
CommitWith(queued, surfaces) ==
    /\ needsRender
    /\ \E mount \in {~mounted},
          simAfter \in {IF shouldClear THEN ClearedSim ELSE CurrentSim},
          animateChanged \in {~mounted \/ cfgDirty \/ rIsPlaying # isPlaying
                                       \/ rTheme # theme},
          k0 \in {calculateOptimalScale(config, Window.w, Window.h)} :
         \E lw \in {calculateResponsiveLineWidth(k0, Window.w, Window.h)},
            file \in { ExportFile(ExportImage(simAfter.points, viewTransform, config,
                                              downloadState, theme, canvas),
                                  downloadState.withStats, timestamp,
                                  [points |-> simAfter.points,
                                   transform |-> viewTransform, config |-> config,
                                   theme |-> IF downloadState.theme = "unset"
                                             THEN theme ELSE downloadState.theme,
                                   withStats |-> downloadState.withStats])
                       : timestamp \in IF downloadState.active THEN Timestamps
                                       ELSE {0} } :
           \* Sync ref
           /\ transformRef' = viewTransform
           \* Handle Clear, then onCleared()
           /\ angleRef' = simAfter.t
           /\ rotorParamRef' = simAfter.u
           /\ rotorRotationRef' = simAfter.phi
           /\ pointsRef' = simAfter.points
           /\ shouldClear' = FALSE
           /\ nClears' = IF shouldClear THEN nClears + 1 ELSE nClears
           /\ clearedLen' = IF shouldClear THEN Len(pointsRef) ELSE clearedLen
           /\ UNCHANGED <<lastEdit, viewHist>>
           \* Handle Download, then onDownloaded()
           /\ \E tCtx \in IF downloadState.active THEN surfaces ELSE {TRUE} :
                  saved' = IF downloadState.active /\ tCtx
                           THEN Append(saved, file)
                           ELSE saved
           /\ downloadState' = IF downloadState.active THEN NoDownload ELSE downloadState
           \* cancelAnimationFrame(requestRef.current); requestAnimationFrame(animate)
           /\ IF queued THEN ScheduleLoop(animateChanged)
                        ELSE KeepLoop(animateChanged)
           \* App: initialise scale and line width on mount
           /\ config' = IF mount THEN [config EXCEPT !.lineWidth = RMul(lw, RInt(4))]
                        ELSE config
           /\ viewTransform' = IF mount THEN [viewTransform EXCEPT !.k = k0]
                               ELSE viewTransform
           /\ rConfig' = config
           /\ rIsPlaying' = isPlaying
           /\ rTheme' = theme
           /\ cfgDirty' = mount
           /\ needsRender' = (mount \/ shouldClear \/ downloadState.active)
           /\ mounted' = TRUE
    /\ UNCHANGED <<isPlaying, theme, gestureVars, domVars, budgetVars, lastFrame>>

\* a commit in which the export, if there is one, gets its offscreen context
Commit == CommitWith(FALSE, {TRUE})

(***************************************************************************)
(* Controls and App handlers that set React state                          *)
(***************************************************************************)
\* the run may take another input event
Budget == nEdits + nViewOps + nPointerOps + nSignals < MaxOps

\* an input event is handled once the render its predecessor queued has been
\* committed (frames may still run between a handler and its commit)
Idle == mounted /\ ~needsRender /\ Budget

\* values the sliders, the number boxes and the toggles can deliver
ConfigEdits ==
    {<<"outerRadius", 150 * 100>>, <<"innerRadius", 52 * 100>>,
     <<"penOffset", 70 * 100>>, <<"speed", 1>>, <<"speed", 3>>,
     <<"statorAspect", 1000>>, <<"statorAspect", 600>>, <<"rotorAspect", 1400>>,
     <<"statorAspect", 1004>>, <<"rotorAspect", 1006>>,
     <<"showGears", FALSE>>, <<"penColor", "#ef4444">>}

\* an updater that keeps the ratio hint whatever the key
updateConfigValueKeepsHint(prev, key, value) == [prev EXCEPT ![key] = value]

updateConfigValue(prev, key, value) ==
    IF key \in {"outerRadius", "innerRadius"}
    THEN [prev EXCEPT ![key] = value, !.numerator = Undefined,
                      !.denominator = Undefined]
    ELSE [prev EXCEPT ![key] = value]

updateConfig ==
    /\ Idle
    /\ nEdits < MaxEdits
    /\ \E e \in ConfigEdits :
           /\ config' = updateConfigValue(config, e[1], e[2])
           /\ lastEdit' = e[1]
    /\ cfgDirty' = TRUE
    /\ needsRender' = TRUE
    /\ nEdits' = nEdits + 1
    /\ UNCHANGED <<isPlaying, shouldClear, downloadState, theme, viewTransform,
                   rConfig, rIsPlaying, rTheme, mounted, simVars, transformRef,
                   gestureVars, framePending, domVars, saved, nViewOps,
                   nPointerOps, nSignals,
                   lastFrame, nClears, clearedLen, gestureHist>>

\* onTogglePlay={() => setIsPlaying(!isPlaying)}
onTogglePlay ==
    /\ Idle
    /\ nSignals < MaxSignals
    /\ isPlaying' = ~rIsPlaying
    /\ needsRender' = TRUE
    /\ nSignals' = nSignals + 1
    /\ UNCHANGED <<config, shouldClear, downloadState, theme, viewTransform,
                   rConfig, rIsPlaying, rTheme, cfgDirty, mounted, simVars,
                   transformRef, gestureVars, framePending, domVars, saved,
                   nEdits, nViewOps, nPointerOps,
                   histVars>>

\* onClear={() => setShouldClear(true)}
onClear ==
    /\ Idle
    /\ nSignals < MaxSignals
    /\ shouldClear' = TRUE
    /\ needsRender' = TRUE
    /\ nSignals' = nSignals + 1
    /\ UNCHANGED <<config, isPlaying, downloadState, theme, viewTransform,
                   rConfig, rIsPlaying, rTheme, cfgDirty, mounted, simVars,
                   transformRef, gestureVars, framePending, domVars, saved,
                   nEdits, nViewOps, nPointerOps,
                   histVars>>

\* onToggleTheme={() => setTheme(t => t === 'dark' ? 'light' : 'dark')}
onToggleTheme ==
    /\ Idle
    /\ nSignals < MaxSignals
    /\ theme' = IF theme = "dark" THEN "light" ELSE "dark"
    /\ needsRender' = TRUE
    /\ nSignals' = nSignals + 1
    /\ UNCHANGED <<config, isPlaying, shouldClear, downloadState, viewTransform,
                   rConfig, rIsPlaying, rTheme, cfgDirty, mounted, simVars,
                   transformRef, gestureVars, framePending, domVars, saved,
                   nEdits, nViewOps, nPointerOps,
                   histVars>>

\* onDownload={(ws) => setDownloadState({ active: true, withStats: ws })}
onDownload ==
    /\ Idle
    /\ nSignals < MaxSignals
    /\ \E ws \in BOOLEAN :
           downloadState' = [active |-> TRUE, theme |-> "unset", withStats |-> ws]
    /\ needsRender' = TRUE
    /\ nSignals' = nSignals + 1
    /\ UNCHANGED <<config, isPlaying, shouldClear, theme, viewTransform,
                   rConfig, rIsPlaying, rTheme, cfgDirty, mounted, simVars,
                   transformRef, gestureVars, framePending, domVars, saved,
                   nEdits, nViewOps, nPointerOps,
                   histVars>>

\* handleRandomize: a fresh random config, fitted to the window, cleared, playing
handleRandomize ==
    /\ Idle
    /\ nEdits < MaxEdits
    /\ \E newConfig \in RandomConfigs :
           LET k == calculateOptimalScale(newConfig, Window.w, Window.h)
               lw == calculateResponsiveLineWidth(k, Window.w, Window.h)
           IN  /\ config' = [newConfig EXCEPT !.lineWidth = RMul(lw, RInt(4))]
               /\ viewTransform' = Transform(RInt(0), RInt(0), k)
    /\ shouldClear' = TRUE
    /\ isPlaying' = TRUE
    /\ cfgDirty' = TRUE
    /\ needsRender' = TRUE
    /\ nEdits' = nEdits + 1
    /\ lastEdit' = "randomize"
    /\ UNCHANGED <<downloadState, theme, rConfig, rIsPlaying, rTheme, mounted,
                   simVars, transformRef, gestureVars, framePending, domVars,
                   saved, nViewOps, nPointerOps, nSignals,
                   lastFrame, nClears, clearedLen, gestureHist>>

\* startScreensaver: dark theme, speed 1, line width and scale fitted to the window
startScreensaver ==
    /\ Idle
    /\ nSignals < MaxSignals
    /\ LET k == calculateOptimalScale(rConfig, Window.w, Window.h)
           lw == calculateResponsiveLineWidth(k, Window.w, Window.h)
       IN  /\ config' = [config EXCEPT !.lineWidth = RMul(lw, RInt(4)), !.speed = 10]
           /\ viewTransform' = Transform(RInt(0), RInt(0), k)
    /\ theme' = "dark"
    /\ cfgDirty' = TRUE
    /\ needsRender' = TRUE
    /\ nSignals' = nSignals + 1
    /\ UNCHANGED <<isPlaying, shouldClear, downloadState, rConfig, rIsPlaying,
                   rTheme, mounted, simVars, transformRef, gestureVars,
                   framePending, domVars, saved, nEdits, nViewOps, nPointerOps,
                   histVars>>

(***************************************************************************)
(* Layout                                                                  *)
(***************************************************************************)
\* the browser lays the container out at another size
LayoutChange ==
    /\ mounted /\ Budget
    /\ nSignals < MaxSignals
    /\ \E size \in ContainerSizes : size # container /\ container' = size
    /\ nSignals' = nSignals + 1
    /\ UNCHANGED <<appVars, renderVars, simVars, transformRef, gestureVars,
                   framePending, canvas, screen, saved, nEdits, nViewOps,
                   nPointerOps,
                   histVars>>

\* a resize that drops the recorded trace along with the canvas bitmap
handleResizeDropsTrace ==
    /\ mounted
    /\ canvas # [w |-> container.w * Dpr, h |-> container.h * Dpr]
    /\ canvas' = [w |-> container.w * Dpr, h |-> container.h * Dpr]
    /\ screen' = Blank
    /\ pointsRef' = <<>>
    /\ UNCHANGED <<appVars, renderVars, angleRef, rotorParamRef, rotorRotationRef,
                   transformRef, gestureVars, framePending, container, saved,
                   budgetVars, histVars>>

\* ResizeObserver callback: both canvases take clientSize * dpr (assigning a
\* canvas its width or height empties it)
handleResize ==
    /\ mounted
    /\ canvas # [w |-> container.w * Dpr, h |-> container.h * Dpr]
    /\ canvas' = [w |-> container.w * Dpr, h |-> container.h * Dpr]
    /\ screen' = Blank
    /\ UNCHANGED <<appVars, renderVars, simVars, transformRef, gestureVars,
                   framePending, container, saved, budgetVars,
                   histVars>>

(***************************************************************************)
(* View transform: wheel, pointers, buttons                                *)
(***************************************************************************)
\* Math.max(0.1, Math.min(20, k))
ClampK(k) == RMax(Rat(1, 10), RMin(RInt(20), k))

\* an updater that rescales the anchor's world point with the old scale
ZoomAboutOldScale(prev, mouseX, mouseY, W, H, newK) ==
    Transform(RSub(RSub(mouseX, Rat(W, 2)),
                   RSub(mouseX, RAdd(Rat(W, 2), prev.x))),
              RSub(RSub(mouseY, Rat(H, 2)),
                   RSub(mouseY, RAdd(Rat(H, 2), prev.y))),
              newK)

\* the updater handleWheel and the pinch branch hand to onTransformChange;
\* newK is the scale already clamped
ZoomAbout(prev, mouseX, mouseY, W, H, newK) ==
    LET worldX == RDiv(RSub(mouseX, RAdd(Rat(W, 2), prev.x)), prev.k)
        worldY == RDiv(RSub(mouseY, RAdd(Rat(H, 2), prev.y)), prev.k)
        newX == RSub(RSub(mouseX, Rat(W, 2)), RMul(worldX, newK))
        newY == RSub(RSub(mouseY, Rat(H, 2)), RMul(worldY, newK))
    IN  Transform(newX, newY, newK)

\* handleWheel's updater for one wheel event
WheelUpdate(prev, mouseX, mouseY, W, H, scaleFactor) ==
    ZoomAbout(prev, mouseX, mouseY, W, H, ClampK(RMul(prev.k, scaleFactor)))

\* Math.exp(-deltaY * 0.001) for a few wheel deltas, and the pointer positions
WheelFactors == {Rat(4, 1), Rat(1, 64)}
WheelAnchors == {[x |-> 600, y |-> 450], [x |-> 0, y |-> 600]}
PointerIds == {1, 2}
PointerDownPositions == {[x |-> 100, y |-> 300], [x |-> 400, y |-> 300]}
PointerPositions == {[x |-> 100, y |-> 300], [x |-> 400, y |-> 300],
                     [x |-> 400, y |-> 700]}

handleWheel ==
    /\ Idle
    /\ nViewOps < MaxViewOps
    /\ \E m \in WheelAnchors, f \in WheelFactors :
           viewTransform' = WheelUpdate(viewTransform, RInt(m.x), RInt(m.y),
                                        container.w, container.h, f)
    /\ needsRender' = TRUE
    /\ nViewOps' = nViewOps + 1
    /\ UNCHANGED <<config, isPlaying, shouldClear, downloadState, theme, rConfig,
                   rIsPlaying, rTheme, cfgDirty, mounted, simVars, transformRef,
                   gestureVars, framePending, domVars, saved, nEdits,
                   nPointerOps, nSignals,
                   histVars>>

\* Map.set / Map.delete on pointersRef
MapSet(m, id, pos) == [i \in DOMAIN m \cup {id} |-> IF i = id THEN pos ELSE m[i]]
MapDelete(m, id) == [i \in DOMAIN m \ {id} |-> m[i]]

handlePointerDown ==
    /\ Idle
    /\ nPointerOps < MaxPointerOps
    /\ \E id \in PointerIds, pos \in PointerDownPositions :
           pointersRef' = MapSet(pointersRef, id, pos)
    /\ prevPinchDistRef' = Null
    /\ nPointerOps' = nPointerOps + 1
    /\ UNCHANGED <<appVars, renderVars, simVars, transformRef, framePending,
                   domVars, saved, nEdits, nViewOps, nSignals,
                   histVars>>

\* also bound to pointerleave and pointercancel
handlePointerUp ==
    /\ Idle
    /\ nPointerOps < MaxPointerOps
    /\ \E id \in PointerIds : pointersRef' = MapDelete(pointersRef, id)
    /\ prevPinchDistRef' = Null
    /\ nPointerOps' = nPointerOps + 1
    /\ UNCHANGED <<appVars, renderVars, simVars, transformRef, framePending,
                   domVars, saved, nEdits, nViewOps, nSignals,
                   histVars>>

\* Math.hypot
Hypot(dx, dy) == Sqrt(dx * dx + dy * dy)

\* the pinch branch's effect on the transform, given the recorded distance
PinchUpdate(prev, p1, p2, W, H, prevDist) ==
    LET dist == Hypot(p2.x - p1.x, p2.y - p1.y)
        midX == Rat(p1.x + p2.x, 2)
        midY == Rat(p1.y + p2.y, 2)
    IN  IF prevDist = Null THEN prev
        ELSE IF prevDist = 0
             \* dist / 0 is Infinity (or NaN for 0 / 0, which fails the test below)
             THEN IF dist = 0 THEN prev
                  ELSE ZoomAbout(prev, midX, midY, W, H, RInt(20))
        ELSE LET scaleFactor == Rat(dist, prevDist)
             IN  IF RLt(Rat(5, 1000), RAbs(RSub(scaleFactor, RInt(1))))
                 THEN ZoomAbout(prev, midX, midY, W, H,
                                ClampK(RMul(prev.k, scaleFactor)))
                 ELSE prev

\* a move of a pointer that is not down is ignored
handlePointerMoveIgnored ==
    /\ mounted
    /\ \E id \in PointerIds : id \notin DOMAIN pointersRef
    /\ UNCHANGED vars

\* an updater that adds the displacement twice
PanUpdateTwice(t, dx, dy) ==
    [t EXCEPT !.x = RAdd(@, RInt(2 * dx)), !.y = RAdd(@, RInt(2 * dy))]

\* t => ({ ...t, x: t.x + dx, y: t.y + dy })
PanUpdate(t, dx, dy) == [t EXCEPT !.x = RAdd(@, RInt(dx)), !.y = RAdd(@, RInt(dy))]

\* one pointer down: pan by the displacement since its last event
handlePointerMovePan ==
    /\ Idle
    /\ nViewOps < MaxViewOps
    /\ Cardinality(DOMAIN pointersRef) = 1
    /\ \E id \in DOMAIN pointersRef, pos \in PointerPositions :
           LET prev == pointersRef[id]
               dx == pos.x - prev.x
               dy == pos.y - prev.y
           IN  /\ viewTransform' = PanUpdate(viewTransform, dx, dy)
               /\ pointersRef' = MapSet(pointersRef, id, pos)
    /\ needsRender' = TRUE
    /\ nViewOps' = nViewOps + 1
    /\ UNCHANGED <<config, isPlaying, shouldClear, downloadState, theme, rConfig,
                   rIsPlaying, rTheme, cfgDirty, mounted, simVars, transformRef,
                   prevPinchDistRef, framePending, domVars, saved, nEdits,
                   nPointerOps, nSignals,
                   histVars>>

\* two pointers down: record the distance, zoom about the midpoint
handlePointerMovePinch ==
    /\ Idle
    /\ nViewOps < MaxViewOps
    /\ Cardinality(DOMAIN pointersRef) = 2
    /\ \E id \in DOMAIN pointersRef, pos \in PointerPositions :
           LET other == CHOOSE o \in DOMAIN pointersRef : o # id
               p2 == pointersRef[other]
           IN  /\ viewTransform' = PinchUpdate(viewTransform, pos, p2, container.w,
                                               container.h, prevPinchDistRef)
               /\ prevPinchDistRef' = Hypot(p2.x - pos.x, p2.y - pos.y)
               /\ pointersRef' = MapSet(pointersRef, id, pos)
    /\ needsRender' = TRUE
    /\ nViewOps' = nViewOps + 1
    /\ UNCHANGED <<config, isPlaying, shouldClear, downloadState, theme, rConfig,
                   rIsPlaying, rTheme, cfgDirty, mounted, simVars, transformRef,
                   framePending, domVars, saved, nEdits, nPointerOps, nSignals,
                   histVars>>

handlePointerMove ==
    handlePointerMoveIgnored \/ handlePointerMovePan \/ handlePointerMovePinch

\* the overlay buttons of App
ViewButton(next) ==
    /\ Idle
    /\ nViewOps < MaxViewOps
    /\ viewTransform' = next
    /\ needsRender' = TRUE
    /\ nViewOps' = nViewOps + 1
    /\ UNCHANGED <<config, isPlaying, shouldClear, downloadState, theme, rConfig,
                   rIsPlaying, rTheme, cfgDirty, mounted, simVars, transformRef,
                   gestureVars, framePending, domVars, saved, nEdits,
                   nPointerOps, nSignals,
                   histVars>>

\* title="Zoom In": setViewTransform(prev => ({ ...prev, k: prev.k * 1.2 }))
ZoomInButton == ViewButton([viewTransform EXCEPT !.k = RMul(@, Rat(6, 5))])

\* title="Zoom Out": setViewTransform(prev => ({ ...prev, k: prev.k / 1.2 }))
ZoomOutButton == ViewButton([viewTransform EXCEPT !.k = RDiv(@, Rat(6, 5))])

\* title="Reset View"
ResetViewButton ==
    ViewButton(Transform(RInt(0), RInt(0),
                         calculateOptimalScale(rConfig, Window.w, Window.h)))

(***************************************************************************)
(* The system                                                              *)
(***************************************************************************)
Next ==
    \/ Commit
    \/ animate
    \/ updateConfig
    \/ onTogglePlay
    \/ onClear
    \/ onToggleTheme
    \/ onDownload
    \/ handleRandomize
    \/ startScreensaver
    \/ LayoutChange
    \/ handleResize
    \/ handleWheel
    \/ handlePointerDown
    \/ handlePointerUp
    \/ handlePointerMove
    \/ ZoomInButton
    \/ ZoomOutButton
    \/ ResetViewButton

Spec == Init /\ [][Next]_vars

(***************************************************************************)
(* The engine, the frame and the export applied to drawn inputs: configs,  *)
(* scales and an export request are drawn at the start; frames then grow   *)
(* and draw the trace, commits export it, and numeric steps integrate the  *)
(* rolling from (t, u) = (0, 0) whatever the aspects                       *)
(***************************************************************************)
\* longest trace the frames accumulate here
MaxTrace == 17
\* numeric steps of one run
MaxRun == 800

\* DEFAULT_CONFIG: R 150, r 52, d 70, two circles, hint 2 / 3
DEFAULT_CONFIG == MkConfig(150 * 100, 52 * 100, 70 * 100, 1000, 1000, 2, 3)

\* DEFAULT_CONFIG with both aspects set to aspect and the hint dropped, as an
\* edit of a radius leaves it
Unhinted(aspect) ==
    [DEFAULT_CONFIG EXCEPT !.statorAspect = aspect, !.rotorAspect = aspect,
                           !.numerator = Undefined, !.denominator = Undefined]

\* the speed slider at 0.2: one sub-step per frame
ProbeConfigs ==
    { [cfg EXCEPT !.speed = 2] :
        cfg \in { DEFAULT_CONFIG, Unhinted(1000), Unhinted(1001), Unhinted(1010),
                  Unhinted(1100),
                  MkConfig(100 * 100, 40 * 100, 30 * 100, 1000, 1000,
                           Undefined, Undefined),
                  MkConfig(60 * 100, 45 * 100, 20 * 100, 600, 1000,
                           Undefined, Undefined),
                  MkConfig(60 * 100, 45 * 100, 20 * 100, 600, 1000, 3, 4) } }

\* scales on both sides of the stride threshold 0.2, within [0.1, 20]
ProbeScales == {Rat(1, 10), Rat(3, 20), Rat(1, 5), RInt(1)}

ProbeInit ==
    /\ config \in ProbeConfigs
    /\ isPlaying = TRUE
    /\ shouldClear = FALSE
    /\ framePending \in BOOLEAN
    /\ downloadState \in
          IF framePending
          THEN {NoDownload, [active |-> TRUE, theme |-> "unset", withStats |-> TRUE]}
          ELSE {NoDownload}
    /\ theme = "light"
    /\ viewTransform \in
          IF framePending
          THEN {Transform(RInt(0), RInt(0), k) : k \in ProbeScales}
          ELSE {Transform(RInt(0), RInt(0), RInt(1))}
    /\ rConfig = config
    /\ rIsPlaying = TRUE
    /\ rTheme = "light"
    /\ cfgDirty = FALSE
    /\ needsRender = downloadState.active
    /\ mounted = TRUE
    /\ transformRef = viewTransform
    /\ angleRef = 0
    /\ rotorParamRef = 0
    /\ rotorRotationRef = 0
    /\ pointsRef = <<>>
    /\ pointersRef = NoPointers
    /\ prevPinchDistRef = Null
    /\ container = [w |-> 800, h |-> 600]
    /\ canvas = [w |-> container.w * Dpr, h |-> container.h * Dpr]
    /\ screen = Blank
    /\ saved = <<>>
    /\ nEdits = 0
    /\ nViewOps = 0
    /\ nPointerOps = 0
    /\ nSignals = 0
    /\ lastFrame = "none"
    /\ nClears = 0
    /\ clearedLen = Null
    /\ lastEdit = "none"
    /\ panOrigin = Null
    /\ pinchOrigin = Null
    /\ movedPointer = Null
    /\ resetInput = NoReset
    /\ rafQueue = {}
    /\ requestRef = 0

\* a full frame of the running loop, the trace bounded by MaxTrace
ProbeFrame ==
    /\ framePending
    /\ container.w # 0 /\ container.h # 0
    /\ rIsPlaying => Len(pointsRef) + Steps(rConfig) <= MaxTrace
    /\ \E after \in {Advance(CurrentSim, rConfig, rIsPlaying)} :
           /\ angleRef' = after.t
           /\ rotorParamRef' = after.u
           /\ rotorRotationRef' = after.phi
           /\ pointsRef' = after.points
           /\ screen' = Draw(after, rConfig, transformRef)
    /\ framePending' = TRUE
    /\ lastFrame' = IF rIsPlaying THEN "played" ELSE "paused"
    /\ UNCHANGED <<lastEdit, gestureHist>>
    /\ UNCHANGED <<appVars, renderVars, transformRef, gestureVars, container,
                   canvas, saved, budgetVars, nClears, clearedLen>>

\* the numeric branch of the loop body, taken whatever the aspects: RK4 on u,
\* the geometry at the new (t, u), the pen appended to the trace
NumericStep ==
    /\ ~framePending
    /\ Len(pointsRef) < MaxRun
    /\ \E state \in {calculatePhysicsStep(angleRef, dt, rotorParamRef,
                          rConfig.outerRadius, rConfig.innerRadius,
                          rConfig.penOffset, rConfig.statorAspect,
                          rConfig.rotorAspect)} :
           /\ angleRef' = angleRef + dt
           /\ rotorParamRef' = state.newU
           /\ rotorRotationRef' = state.phi
           /\ pointsRef' = Append(pointsRef, [x |-> state.px, y |-> state.py])
    /\ UNCHANGED <<appVars, renderVars, transformRef, gestureVars, framePending,
                   domVars, saved, budgetVars, histVars>>

ProbeNext ==
    \/ Commit
    \/ ProbeFrame
    \/ NumericStep

ProbeSpec == ProbeInit /\ [][ProbeNext]_vars

(***************************************************************************)
(* The pointer handlers on their own: pointers go down, move and go up in  *)
(* any order, and the updaters the handlers hand to onTransformChange are  *)
(* applied in the order of the calls                                       *)
(***************************************************************************)
\* pointer events of one run
MaxGesture == 5

\* e.pointerId, and e.clientX / e.clientY inside the container, whose
\* bounding rect starts at (0, 0)
GestureIds == {1, 2, 3}
GestureDownPositions == {[x |-> 100, y |-> 100], [x |-> 400, y |-> 100]}
GesturePositions ==
    {[x |-> 100, y |-> 100], [x |-> 400, y |-> 100], [x |-> 401, y |-> 100],
     [x |-> 400, y |-> 500]}

GestureInit ==
    /\ config = DEFAULT_CONFIG
    /\ isPlaying = TRUE
    /\ shouldClear = FALSE
    /\ downloadState = NoDownload
    /\ theme = "light"
    /\ viewTransform \in {Transform(RInt(0), RInt(0), RInt(1)),
                          Transform(RInt(30), RInt(-20), RInt(15))}
    /\ rConfig = config
    /\ rIsPlaying = TRUE
    /\ rTheme = "light"
    /\ cfgDirty = FALSE
    /\ needsRender = FALSE
    /\ mounted = TRUE
    /\ transformRef = viewTransform
    /\ angleRef = 0
    /\ rotorParamRef = 0
    /\ rotorRotationRef = 0
    /\ pointsRef = <<>>
    /\ pointersRef = NoPointers
    /\ prevPinchDistRef = Null
    /\ framePending = TRUE
    /\ container = [w |-> 800, h |-> 600]
    /\ canvas = [w |-> container.w * Dpr, h |-> container.h * Dpr]
    /\ screen = Blank
    /\ saved = <<>>
    /\ nEdits = 0
    /\ nViewOps = 0
    /\ nPointerOps = 0
    /\ nSignals = 0
    /\ lastFrame = "none"
    /\ nClears = 0
    /\ clearedLen = Null
    /\ lastEdit = "none"
    /\ panOrigin = Null
    /\ pinchOrigin = Null
    /\ movedPointer = Null
    /\ resetInput = NoReset
    /\ rafQueue = {}
    /\ requestRef = 0

\* the transform and the recorded position of the pointer that is down alone
PanOriginOf(pointers, t) ==
    IF Cardinality(DOMAIN pointers) = 1
    THEN Only({ [x |-> t.x, y |-> t.y, k |-> t.k, pos |-> pointers[id]]
                : id \in DOMAIN pointers })
    ELSE Null

\* handlePointerDown for a pointer that is not down yet
GestureDown ==
    /\ nPointerOps + nViewOps < MaxGesture
    /\ \E id \in GestureIds \ DOMAIN pointersRef, pos \in GestureDownPositions :
           pointersRef' = MapSet(pointersRef, id, pos)
    /\ prevPinchDistRef' = Null
    /\ nPointerOps' = nPointerOps + 1
    /\ panOrigin' = PanOriginOf(pointersRef', viewTransform)
    /\ pinchOrigin' = Null
    /\ movedPointer' = Null
    /\ UNCHANGED <<appVars, renderVars, simVars, transformRef, framePending,
                   domVars, saved, nEdits, nViewOps, nSignals,
                   lastFrame, nClears, clearedLen, lastEdit, resetInput, loopVars>>

\* handlePointerUp, also bound to pointerleave
GestureUp ==
    /\ nPointerOps + nViewOps < MaxGesture
    /\ \E id \in GestureIds : pointersRef' = MapDelete(pointersRef, id)
    /\ prevPinchDistRef' = Null
    /\ nPointerOps' = nPointerOps + 1
    /\ panOrigin' = PanOriginOf(pointersRef', viewTransform)
    /\ pinchOrigin' = Null
    /\ movedPointer' = Null
    /\ UNCHANGED <<appVars, renderVars, simVars, transformRef, framePending,
                   domVars, saved, nEdits, nViewOps, nSignals,
                   lastFrame, nClears, clearedLen, lastEdit, resetInput, loopVars>>

\* handlePointerMove for a pointer that is not down, or with three or more
\* pointers down: no branch is taken
GestureMoveIgnored ==
    /\ nPointerOps + nViewOps < MaxGesture
    /\ \E id \in GestureIds :
           /\ \/ id \notin DOMAIN pointersRef
              \/ Cardinality(DOMAIN pointersRef) >= 3
           /\ movedPointer' = id
    /\ nViewOps' = nViewOps + 1
    /\ UNCHANGED <<appVars, renderVars, simVars, transformRef, gestureVars,
                   framePending, domVars, saved, nEdits, nPointerOps, nSignals,
                   lastFrame, nClears, clearedLen, lastEdit, panOrigin,
                   pinchOrigin, resetInput, loopVars>>

\* handlePointerMove, pointers.size === 1
GestureMovePan ==
    /\ nPointerOps + nViewOps < MaxGesture
    /\ Cardinality(DOMAIN pointersRef) = 1
    /\ \E id \in DOMAIN pointersRef, pos \in GesturePositions :
           /\ viewTransform' = PanUpdate(viewTransform, pos.x - pointersRef[id].x,
                                         pos.y - pointersRef[id].y)
           /\ pointersRef' = MapSet(pointersRef, id, pos)
           /\ movedPointer' = id
    /\ needsRender' = TRUE
    /\ nViewOps' = nViewOps + 1
    /\ UNCHANGED <<config, isPlaying, shouldClear, downloadState, theme, rConfig,
                   rIsPlaying, rTheme, cfgDirty, mounted, simVars, transformRef,
                   prevPinchDistRef, framePending, domVars, saved, nEdits,
                   nPointerOps, nSignals, lastFrame, nClears, clearedLen,
                   lastEdit, panOrigin, pinchOrigin, resetInput, loopVars>>

\* the scale a pinch move asks for, before the clamp; none on the first move
\* and for a recorded distance of 0
PinchAsked(prevK, dist, prevDist) ==
    IF prevDist = Null \/ prevDist = 0 THEN Null
    ELSE RMul(prevK, Rat(dist, prevDist))

\* handlePointerMove, pointers.size === 2
GestureMovePinch ==
    /\ nPointerOps + nViewOps < MaxGesture
    /\ Cardinality(DOMAIN pointersRef) = 2
    /\ \E id \in DOMAIN pointersRef, pos \in GesturePositions :
         \E p2 \in {pointersRef[o] : o \in DOMAIN pointersRef \ {id}} :
           \E dist \in {Hypot(p2.x - pos.x, p2.y - pos.y)} :
             /\ viewTransform' = PinchUpdate(viewTransform, pos, p2, container.w,
                                             container.h, prevPinchDistRef)
             /\ prevPinchDistRef' = dist
             /\ pointersRef' = MapSet(pointersRef, id, pos)
             /\ movedPointer' = id
             /\ pinchOrigin' =
                   IF prevPinchDistRef = Null
                   THEN [k |-> viewTransform.k, dist |-> dist, clamped |-> FALSE]
                   ELSE [pinchOrigin EXCEPT !.clamped =
                           \/ @
                           \/ prevPinchDistRef = 0
                           \/ PinchAsked(viewTransform.k, dist, prevPinchDistRef)
                                # ClampK(PinchAsked(viewTransform.k, dist,
                                                    prevPinchDistRef))]
    /\ needsRender' = (needsRender \/ viewTransform' # viewTransform)
    /\ nViewOps' = nViewOps + 1
    /\ UNCHANGED <<config, isPlaying, shouldClear, downloadState, theme, rConfig,
                   rIsPlaying, rTheme, cfgDirty, mounted, simVars, transformRef,
                   framePending, domVars, saved, nEdits, nPointerOps, nSignals,
                   lastFrame, nClears, clearedLen, lastEdit, panOrigin,
                   resetInput, loopVars>>

GestureNext ==
    \/ GestureDown
    \/ GestureUp
    \/ GestureMoveIgnored
    \/ GestureMovePan
    \/ GestureMovePinch

GestureSpec == GestureInit /\ [][GestureNext]_vars

(***************************************************************************)
(* The view buttons alone: Zoom In, Reset View and Zoom Out on a mounted   *)
(* app, for configurations within the sliders' ranges and a few windows    *)
(***************************************************************************)
MaxClicks == 3

ViewWindows ==
    { [w |-> 2560, h |-> 1440], [w |-> 800, h |-> 600], [w |-> 1280, h |-> 160] }

ViewConfigs ==
    { DEFAULT_CONFIG,
      [DEFAULT_CONFIG EXCEPT !.showGears = FALSE],
      [DEFAULT_CONFIG EXCEPT !.rotorAspect = 2000],
      [DEFAULT_CONFIG EXCEPT !.rotorAspect = 2000, !.showGears = FALSE],
      MkConfig(400 * 100, 10 * 100, 400 * 100, 2000, 1000, Undefined, Undefined),
      MkConfig(60 * 100, 45 * 100, 20 * 100, 600, 1000, 3, 4),
      MkConfig(50 * 100, 10 * 100, 10 * 100, 200, 200, Undefined, Undefined) }

ViewInit ==
    /\ config \in ViewConfigs
    /\ isPlaying = TRUE
    /\ shouldClear = FALSE
    /\ downloadState = NoDownload
    /\ theme = "light"
    /\ viewTransform \in {Transform(RInt(0), RInt(0), RInt(1)),
                          Transform(RInt(30), RInt(-20), RInt(15))}
    /\ rConfig = config
    /\ rIsPlaying = TRUE
    /\ rTheme = "light"
    /\ cfgDirty = FALSE
    /\ needsRender = FALSE
    /\ mounted = TRUE
    /\ transformRef = viewTransform
    /\ angleRef = 0
    /\ rotorParamRef = 0
    /\ rotorRotationRef = 0
    /\ pointsRef = <<>>
    /\ pointersRef = NoPointers
    /\ prevPinchDistRef = Null
    /\ framePending = TRUE
    /\ container = [w |-> 800, h |-> 600]
    /\ canvas = [w |-> container.w * Dpr, h |-> container.h * Dpr]
    /\ screen = Blank
    /\ saved = <<>>
    /\ nEdits = 0
    /\ nViewOps = 0
    /\ nPointerOps = 0
    /\ nSignals = 0
    /\ lastFrame = "none"
    /\ nClears = 0
    /\ clearedLen = Null
    /\ lastEdit = "none"
    /\ panOrigin = Null
    /\ pinchOrigin = Null
    /\ movedPointer = Null
    /\ resetInput = NoReset
    /\ rafQueue = {}
    /\ requestRef = 0

\* a click on one of the overlay buttons
ViewClick(next, input) ==
    /\ nViewOps < MaxClicks
    /\ viewTransform' = next
    /\ resetInput' = input
    /\ needsRender' = TRUE
    /\ nViewOps' = nViewOps + 1
    /\ UNCHANGED <<config, isPlaying, shouldClear, downloadState, theme, rConfig,
                   rIsPlaying, rTheme, cfgDirty, mounted, simVars, transformRef,
                   gestureVars, framePending, domVars, saved, nEdits,
                   nPointerOps, nSignals, lastFrame, nClears, clearedLen,
                   lastEdit, panOrigin, pinchOrigin, movedPointer, loopVars>>

ViewZoomIn == ViewClick([viewTransform EXCEPT !.k = RMul(@, Rat(6, 5))], NoReset)

ViewZoomOut == ViewClick([viewTransform EXCEPT !.k = RDiv(@, Rat(6, 5))], NoReset)

\* Reset View with window.innerWidth x window.innerHeight = win
ViewReset ==
    \E win \in ViewWindows :
        ViewClick(Transform(RInt(0), RInt(0),
                            calculateOptimalScale(rConfig, win.w, win.h)),
                  [done |-> TRUE, w |-> win.w, h |-> win.h])

ViewNext == ViewZoomIn \/ ViewZoomOut \/ ViewReset

ViewSpec == ViewInit /\ [][ViewNext]_vars

(***************************************************************************)
(* The animation loop with the browser's callback queue spelled out: every *)
(* requestAnimationFrame adds a callback with the next id, a display frame *)
(* runs the callbacks pending when it starts in the order of their         *)
(* requests, cancelAnimationFrame removes the callback with the given id   *)
(***************************************************************************)
MaxFrameIds == 6

LoopCommit ==
    /\ requestRef < MaxFrameIds
    /\ CommitWith(TRUE, {TRUE})

RECURSIVE InRequestOrder(_)
InRequestOrder(queue) ==
    IF queue = {} THEN <<>>
    ELSE LET first == CHOOSE q \in queue : \A o \in queue : q.id <= o.id
         IN  <<first>> \o InRequestOrder(queue \ {first})

\* the callbacks of one display frame, each advancing the simulation
RECURSIVE RunCallbacks(_, _)
RunCallbacks(sim, due) ==
    IF due = <<>> THEN sim
    ELSE RunCallbacks(Advance(sim, Head(due).cfg, Head(due).playing), Tail(due))

\* requestRef.current = requestAnimationFrame(animate) by each callback in turn
Requeued(due, ref) == { [due[i] EXCEPT !.id = ref + i] : i \in 1..Len(due) }

\* a display frame in which getContext('2d') returns null
LoopAnimateNoContext ==
    /\ rafQueue # {}
    /\ nSignals < MaxSignals
    /\ nEdits + nViewOps + nPointerOps + nSignals < MaxOps
    /\ rafQueue' = {}
    /\ framePending' = FALSE
    /\ nSignals' = nSignals + 1
    /\ lastFrame' = "lost"
    /\ UNCHANGED <<lastEdit, viewHist, requestRef>>
    /\ UNCHANGED <<appVars, renderVars, simVars, transformRef, gestureVars,
                   domVars, saved, nEdits, nViewOps, nPointerOps, nClears,
                   clearedLen>>

\* a display frame while the container has no size
LoopAnimateZeroSize ==
    /\ rafQueue # {}
    /\ requestRef + Cardinality(rafQueue) <= MaxFrameIds
    /\ (container.w = 0 \/ container.h = 0)
    /\ rafQueue' = Requeued(InRequestOrder(rafQueue), requestRef)
    /\ requestRef' = requestRef + Cardinality(rafQueue)
    /\ framePending' = TRUE
    /\ lastFrame' = "skipped"
    /\ UNCHANGED <<lastEdit, viewHist>>
    /\ UNCHANGED <<appVars, renderVars, simVars, transformRef, gestureVars,
                   domVars, saved, budgetVars, nClears, clearedLen>>

\* a display frame: every pending callback simulates, draws and reschedules
LoopAnimateFrame ==
    /\ rafQueue # {}
    /\ requestRef + Cardinality(rafQueue) <= MaxFrameIds
    /\ container.w # 0 /\ container.h # 0
    /\ \E due \in {InRequestOrder(rafQueue)} :
         \E after \in {RunCallbacks(CurrentSim, due)},
            last \in {due[Len(due)]} :
           /\ Len(after.points) <= MaxPoints
           /\ angleRef' = after.t
           /\ rotorParamRef' = after.u
           /\ rotorRotationRef' = after.phi
           /\ pointsRef' = after.points
           /\ screen' = Draw(after, last.cfg, transformRef)
           /\ lastFrame' = IF last.playing THEN "played" ELSE "paused"
           /\ rafQueue' = Requeued(due, requestRef)
           /\ requestRef' = requestRef + Len(due)
    /\ framePending' = TRUE
    /\ UNCHANGED <<lastEdit, viewHist>>
    /\ UNCHANGED <<appVars, renderVars, transformRef, gestureVars, container,
                   canvas, saved, budgetVars, nClears, clearedLen>>

LoopNext ==
    \/ LoopCommit
    \/ LoopAnimateNoContext
    \/ LoopAnimateZeroSize
    \/ LoopAnimateFrame
    \/ updateConfig
    \/ onTogglePlay
    \/ onClear
    \/ LayoutChange
    \/ handleResize

LoopSpec == Init /\ [][LoopNext]_vars

(***************************************************************************)
(* The app at the speed slider's 0.2, one sub-step per frame, so that a    *)
(* run has frames on both sides of an edit                                 *)
(***************************************************************************)
SlowConfigs == { [cfg EXCEPT !.speed = 2] : cfg \in RandomConfigs }

SlowInit ==
    /\ config \in SlowConfigs
    /\ isPlaying = TRUE
    /\ shouldClear = FALSE
    /\ downloadState = NoDownload
    /\ theme = "light"
    /\ viewTransform = Transform(RInt(0), RInt(0), RInt(1))
    /\ rConfig = config
    /\ rIsPlaying = TRUE
    /\ rTheme = "light"
    /\ cfgDirty = FALSE
    /\ needsRender = TRUE
    /\ mounted = FALSE
    /\ transformRef = Transform(RInt(0), RInt(0), RInt(1))
    /\ angleRef = 0
    /\ rotorParamRef = 0
    /\ rotorRotationRef = 0
    /\ pointsRef = <<>>
    /\ pointersRef = NoPointers
    /\ prevPinchDistRef = Null
    /\ framePending = FALSE
    /\ container = [w |-> 800, h |-> 600]
    /\ canvas = [w |-> container.w * Dpr, h |-> container.h * Dpr]
    /\ screen = Blank
    /\ saved = <<>>
    /\ nEdits = 0
    /\ nViewOps = 0
    /\ nPointerOps = 0
    /\ nSignals = 0
    /\ lastFrame = "none"
    /\ nClears = 0
    /\ clearedLen = Null
    /\ lastEdit = "none"
    /\ panOrigin = Null
    /\ pinchOrigin = Null
    /\ movedPointer = Null
    /\ resetInput = NoReset
    /\ rafQueue = {}
    /\ requestRef = 0

SlowNext ==
    \/ Commit
    \/ AnimateFrame
    \/ updateConfig
    \/ onTogglePlay
    \/ onClear

SlowSpec == SlowInit /\ [][SlowNext]_vars

(***************************************************************************)
(* The handshakes of App and the renderer: requests for an export, a       *)
(* clear and a random pattern, the commits that serve them, and frames in  *)
(* between.  The offscreen canvas of an export may fail to give a context. *)
(* React commits every render it has queued, hence the fairness condition. *)
(***************************************************************************)
HandshakeCommit == CommitWith(FALSE, BOOLEAN)

HandshakeNext ==
    \/ HandshakeCommit
    \/ AnimateFrame
    \/ onDownload
    \/ onClear
    \/ onTogglePlay
    \/ handleRandomize

\* a commit told by what every commit, and no other step, does to the props,
\* the signals and the render flag; what it does to the trace, the files and
\* the config is left to HandshakeCommit
CommitStep ==
    /\ needsRender
    /\ transformRef' = viewTransform
    /\ shouldClear' = FALSE
    /\ downloadState' = IF downloadState.active THEN NoDownload ELSE downloadState
    /\ rConfig' = config
    /\ rIsPlaying' = isPlaying
    /\ rTheme' = theme
    /\ cfgDirty' = ~mounted
    /\ needsRender' = (~mounted \/ shouldClear \/ downloadState.active)
    /\ mounted' = TRUE
    /\ nClears' = IF shouldClear THEN nClears + 1 ELSE nClears
    /\ clearedLen' = IF shouldClear THEN Len(pointsRef) ELSE clearedLen
    /\ \/ UNCHANGED simVars
       \/ shouldClear /\ pointsRef' = <<>>
    /\ \/ saved' = saved
       \/ downloadState.active /\ Len(saved') = Len(saved) + 1
    /\ \/ UNCHANGED <<config, viewTransform>>
       \/ ~mounted /\ viewTransform'.x = viewTransform.x
    /\ \/ framePending' = framePending
       \/ framePending'
    /\ UNCHANGED <<isPlaying, theme, gestureVars, domVars, budgetVars, lastFrame,
                   lastEdit, gestureHist>>

HandshakeSpec ==
    Init /\ [][HandshakeNext]_vars /\ WF_vars(CommitStep)

(***************************************************************************)
(* The ratio controls of the settings drawer (Controls.tsx) and a          *)
(* specification in which control operations follow one another            *)
(***************************************************************************)
\* the radius clamp of the ratio controls, Math.max(10, Math.min(400, x))
clampRadius(x) == Max2(10 * 100, Min2(400 * 100, x))

\* outerC * (n / d) / calculateEllipseCircumference(1, rAspect), to the
\* hundredth
ratioInnerRadius(outerC, n, d, rAspect) ==
    Quot(100 * outerC * n, d * calculateEllipseCircumference(100, rAspect))

\* Math.floor(newInnerRadius * (0.4 + Math.random() * 0.8)), the random factor
\* in tenths
randomPenOffset(newInnerRadius, factor) ==
    100 * ((newInnerRadius * factor) \div (100 * 10))

\* ratios the Apply button is pressed with
RatioInputs == {<<2, 3>>, <<5, 1>>, <<1, 20>>}

\* pairs getRandomInt(2, 100) draws, n # d
RandomRatios == {<<2, 5>>, <<100, 2>>}

\* factors 0.4 + Math.random() * 0.8 draws, in tenths
PenFactors == {8}

\* pairs of aspects randomEcc draws
RandomAspects == {<<600, 1000>>, <<1000, 1400>>}

\* edits through the radius and eccentricity sliders
SliderEdits ==
    {<<"outerRadius", 150 * 100>>, <<"innerRadius", 52 * 100>>,
     <<"statorAspect", 600>>}

\* onAutoZoom: the config with the responsive line width, and the fitted view
AutoZoomed(c) ==
    LET k == calculateOptimalScale(c, Window.w, Window.h)
    IN  [config |-> [c EXCEPT !.lineWidth =
                         RMul(calculateResponsiveLineWidth(k, Window.w, Window.h),
                              RInt(4))],
         view |-> Transform(RInt(0), RInt(0), k)]

\* what every control operation leaves alone
ControlFrame ==
    UNCHANGED <<downloadState, theme, rConfig, rIsPlaying, rTheme, mounted,
                simVars, transformRef, gestureVars, framePending, domVars,
                saved, nViewOps, nPointerOps, nSignals,
                lastFrame, nClears, clearedLen, gestureHist>>

\* a slider of the drawer
ControlsUpdateConfig ==
    /\ Idle
    /\ \E e \in SliderEdits :
           /\ config' = updateConfigValue(config, e[1], e[2])
           /\ lastEdit' = e[1]
    /\ cfgDirty' = TRUE
    /\ needsRender' = TRUE
    /\ nEdits' = nEdits + 1
    /\ UNCHANGED <<isPlaying, shouldClear, viewTransform>>
    /\ ControlFrame

\* applyRatioValues(num, den), the Apply button of the ratio inputs
applyRatioValues ==
    /\ Idle
    /\ \E input \in RatioInputs :
           LET num == input[1]
               den == input[2]
               outerCircumference ==
                   calculateEllipseCircumference(rConfig.outerRadius,
                                                 rConfig.statorAspect)
               newInnerRadius ==
                   ratioInnerRadius(outerCircumference, num, den,
                                    rConfig.rotorAspect)
           IN  /\ num > 0 /\ den > 0
               /\ config' = [config EXCEPT
                                !.innerRadius = clampRadius(newInnerRadius),
                                !.numerator = num, !.denominator = den]
    /\ shouldClear' = TRUE
    /\ cfgDirty' = TRUE
    /\ needsRender' = TRUE
    /\ nEdits' = nEdits + 1
    /\ lastEdit' = "ratio"
    /\ UNCHANGED <<isPlaying, viewTransform>>
    /\ ControlFrame

\* handleRandomRatio without its onClear()
handleRandomRatioNoClear ==
    /\ Idle
    /\ \E pair \in RandomRatios, factor \in PenFactors :
           LET newInnerRadius ==
                   clampRadius(ratioInnerRadius(
                       calculateEllipseCircumference(rConfig.outerRadius,
                                                     rConfig.statorAspect),
                       pair[1], pair[2], rConfig.rotorAspect))
               nextConfig ==
                   [rConfig EXCEPT
                       !.innerRadius = newInnerRadius,
                       !.penOffset = randomPenOffset(newInnerRadius, factor),
                       !.numerator = pair[1], !.denominator = pair[2]]
           IN  /\ config' = AutoZoomed(nextConfig).config
               /\ viewTransform' = AutoZoomed(nextConfig).view
    /\ UNCHANGED shouldClear
    /\ isPlaying' = IF ~rIsPlaying THEN ~rIsPlaying ELSE isPlaying
    /\ cfgDirty' = TRUE
    /\ needsRender' = TRUE
    /\ nEdits' = nEdits + 1
    /\ lastEdit' = "randomRatio"
    /\ ControlFrame

\* handleRandomRatio, the Random ratio button
handleRandomRatio ==
    /\ Idle
    /\ \E pair \in RandomRatios, factor \in PenFactors :
           LET newInnerRadius ==
                   clampRadius(ratioInnerRadius(
                       calculateEllipseCircumference(rConfig.outerRadius,
                                                     rConfig.statorAspect),
                       pair[1], pair[2], rConfig.rotorAspect))
               nextConfig ==
                   [rConfig EXCEPT
                       !.innerRadius = newInnerRadius,
                       !.penOffset = randomPenOffset(newInnerRadius, factor),
                       !.numerator = pair[1], !.denominator = pair[2]]
           IN  /\ config' = AutoZoomed(nextConfig).config
               /\ viewTransform' = AutoZoomed(nextConfig).view
    /\ shouldClear' = TRUE
    /\ isPlaying' = IF ~rIsPlaying THEN ~rIsPlaying ELSE isPlaying
    /\ cfgDirty' = TRUE
    /\ needsRender' = TRUE
    /\ nEdits' = nEdits + 1
    /\ lastEdit' = "randomRatio"
    /\ ControlFrame

\* handleRandomRatioAndEccentricity, the Random curve button
handleRandomRatioAndEccentricity ==
    /\ Idle
    /\ \E pair \in RandomRatios, factor \in PenFactors, aspects \in RandomAspects :
           LET sAspect == aspects[1]
               rAspect == aspects[2]
               newInnerRadius ==
                   clampRadius(ratioInnerRadius(
                       calculateEllipseCircumference(rConfig.outerRadius, sAspect),
                       pair[1], pair[2], rAspect))
               nextConfig ==
                   [rConfig EXCEPT
                       !.statorAspect = sAspect, !.rotorAspect = rAspect,
                       !.innerRadius = newInnerRadius,
                       !.penOffset = randomPenOffset(newInnerRadius, factor),
                       !.numerator = pair[1], !.denominator = pair[2],
                       !.penColor = "#ef4444"]
           IN  /\ config' = AutoZoomed(nextConfig).config
               /\ viewTransform' = AutoZoomed(nextConfig).view
    /\ shouldClear' = TRUE
    /\ isPlaying' = IF ~rIsPlaying THEN ~rIsPlaying ELSE isPlaying
    /\ cfgDirty' = TRUE
    /\ needsRender' = TRUE
    /\ nEdits' = nEdits + 1
    /\ lastEdit' = "randomCurve"
    /\ ControlFrame

ControlsNext ==
    \/ Commit
    \/ AnimateFrame
    \/ onTogglePlay
    \/ ControlsUpdateConfig
    \/ applyRatioValues
    \/ handleRandomRatio
    \/ handleRandomRatioAndEccentricity
    \/ handleRandomize

ControlsSpec == Init /\ [][ControlsNext]_vars

(***************************************************************************)
(* Properties                                                              *)
(***************************************************************************)
\* a is a prefix of b
IsPrefix(a, b) == Len(a) <= Len(b) /\ SubSeq(b, 1, Len(a)) = a

\* this step is a commit whose Handle Clear effect ran
ClearApplied == shouldClear /\ nClears' = nClears + 1

\* this step is a full frame callback (surface acquired, viewport not empty):
\* what AnimateFrame, and no other action, does to the variables it leaves alone
FrameStep ==
    /\ framePending
    /\ lastFrame' \in {"played", "paused"}
    /\ UNCHANGED <<appVars, renderVars, transformRef, gestureVars, container,
                   canvas, saved, budgetVars, nClears, clearedLen>>

\* C1: in every state a frame or an export can observe, the trace is empty
\* exactly when the stator angle t is 0, and an empty trace comes with u = 0
\* and phi = 0.
C1_ClearAtomic ==
    /\ (pointsRef = <<>>) <=> (angleRef = 0)
    /\ (pointsRef = <<>>) => (rotorParamRef = 0 /\ rotorRotationRef = 0)

\* a clear has emptied a non-empty trace and no frame has drawn since
C1_Witness ==
    /\ clearedLen > 0
    /\ pointsRef = <<>>
    /\ screen.trace # <<>>

\* ceil(5 * speed) for a speed in tenths, by its defining inequalities
CeilFiveTimes(speed) ==
    CHOOSE n \in (speed \div 2)..(speed \div 2 + 1) :
        10 * n >= 5 * speed /\ 10 * (n - 1) < 5 * speed

C3_AppendOnly ==
    [][IsPrefix(pointsRef, pointsRef') \/ (ClearApplied /\ pointsRef' = <<>>)]_vars

\* the trace grew over two frames around a config edit, a zoom and an export
C3_Witness ==
    /\ Len(pointsRef) > 5
    /\ nEdits = 1
    /\ nViewOps = 1
    /\ saved # <<>>
    /\ nClears = 0

\* C4: only an explicit clear resets the trace and (t, u, phi); config edits,
\* pause / resume, theme, pan, zoom and resizes leave them unchanged, and t
\* never decreases between clears.
C4_ResetOnlyByClear ==
    [][/\ (\/ updateConfig \/ onTogglePlay \/ onToggleTheme \/ handleWheel
           \/ handlePointerDown \/ handlePointerMove \/ handlePointerUp
           \/ ZoomInButton \/ ZoomOutButton \/ ResetViewButton
           \/ LayoutChange \/ handleResize)
          => UNCHANGED simVars
       /\ ~ClearApplied => (angleRef' >= angleRef /\ IsPrefix(pointsRef, pointsRef'))
       /\ (angleRef' < angleRef \/ Len(pointsRef') < Len(pointsRef))
          => (ClearApplied /\ pointsRef' = <<>> /\ angleRef' = 0)]_vars

\* a non-empty trace has survived an edit, a zoom and a resize
C4_Witness ==
    /\ pointsRef # <<>>
    /\ angleRef = Len(pointsRef) * dt
    /\ nEdits = 1
    /\ nViewOps = 1
    /\ nSignals = 1
    /\ canvas = [w |-> 0, h |-> 0]
    /\ nClears = 0

\* the part of C5 every run satisfies: while paused, no step but a clear changes
\* the trace, t, u or phi, so that play resumes from the t and u it paused at;
\* a paused frame that acquires its surface over a non-empty viewport redraws
\* trace and overlay and schedules the next.
PausedFrameKeepsState ==
    [][/\ (~rIsPlaying /\ ~ClearApplied) => UNCHANGED simVars
       /\ (~rIsPlaying /\ FrameStep)
          => /\ screen' = Draw(CurrentSim, rConfig, transformRef)
             /\ framePending']_vars

\* C5: while isPlaying is false, every frame callback leaves the trace, t, u
\* and phi unchanged, redraws trace and overlay, and schedules the next frame.
C5_EveryPausedFrame ==
    [][(~rIsPlaying /\ animate)
          => /\ UNCHANGED simVars
             /\ screen' = Draw(CurrentSim, rConfig, transformRef)
             /\ framePending']_vars

\* C6: a frame callback that cannot acquire its drawing surface still leaves a
\* further frame callback scheduled.
C6_LostFrameRetries ==
    [][(framePending /\ lastFrame' = "lost" /\ AnimateNoContext)
          => framePending']_vars

\* the fields of the config the engine reads
GeometryOf(cfg) ==
    [outerRadius |-> cfg.outerRadius, innerRadius |-> cfg.innerRadius,
     penOffset |-> cfg.penOffset, statorAspect |-> cfg.statorAspect,
     rotorAspect |-> cfg.rotorAspect]

\* n single sub-steps from the cleared state
RECURSIVE Replay(_, _)
Replay(g, n) ==
    IF n = 0 THEN Sim(0, 0, 0, <<>>)
    ELSE Only({ SubStep(prev, g) : prev \in {Replay(g, n - 1)} })

\* the geometries a run of one edit can reach, replayed once
KnownGeometries ==
    {GeometryOf(c) : c \in RandomConfigs}
    \cup {GeometryOf(updateConfigValue(c, e[1], e[2])) :
            c \in RandomConfigs, e \in ConfigEdits}

ReplayTable == [g \in KnownGeometries |-> [n \in 0..MaxPoints |-> Replay(g, n)]]

ReplayOf(cfg, n) ==
    IF GeometryOf(cfg) \in KnownGeometries /\ n <= MaxPoints
    THEN ReplayTable[GeometryOf(cfg)][n]
    ELSE Replay(GeometryOf(cfg), n)

\* the trace, t and u are what Len(trace) single sub-steps under cfg give
InRun(t, u, points, cfg) ==
    \E run \in {ReplayOf(cfg, Len(points))} :
        points = run.points /\ t = run.t /\ u = run.u

\* C7: from a cleared state and while the engine's config fields stay fixed,
\* the trace, t and u after N sub-steps are those of N single sub-steps of
\* that config, whatever the frames, speeds, pauses, gestures, resizes and
\* exports in between.
C7_Deterministic ==
    [][/\ ClearApplied => InRun(angleRef', rotorParamRef', pointsRef', rConfig')
       /\ (/\ ~ClearApplied
           /\ GeometryOf(rConfig') = GeometryOf(rConfig)
           /\ InRun(angleRef, rotorParamRef, pointsRef, rConfig))
          => InRun(angleRef', rotorParamRef', pointsRef', rConfig')]_vars

\* a numeric-mode trace built by several frames around a speed edit, a zoom
\* and a signal equals the replay
C7_Witness ==
    /\ Len(pointsRef) > 5
    /\ ~isCircular(rConfig)
    /\ lastFrame = "played"
    /\ nEdits = 1
    /\ nViewOps = 1
    /\ nSignals = 1
    /\ nClears = 0
    /\ InRun(angleRef, rotorParamRef, pointsRef, rConfig)

\* C8: a clear yields an empty trace and (t, u, phi) = (0, 0, 0), and applied
\* to an already empty trace it changes nothing.
C8_ClearIdempotent ==
    [][ClearApplied
          => /\ pointsRef' = <<>>
             /\ angleRef' = 0 /\ rotorParamRef' = 0 /\ rotorRotationRef' = 0
             /\ (pointsRef = <<>> => UNCHANGED simVars)]_vars

\* a second clear has been applied to the trace the first one emptied
C8_Witness ==
    /\ nClears = 2
    /\ clearedLen = 0
    /\ screen.trace # <<>>
    /\ pointsRef = <<>>

\* C9: the view scale stays within [0.1, 20].
C9_ScaleBounded ==
    /\ RLeq(Rat(1, 10), viewTransform.k)
    /\ RLeq(viewTransform.k, RInt(20))

\* the world point under a screen point
WorldUnder(tr, mouseX, mouseY, W, H) ==
    <<RDiv(RSub(mouseX, RAdd(Rat(W, 2), tr.x)), tr.k),
      RDiv(RSub(mouseY, RAdd(Rat(H, 2), tr.y)), tr.k)>>

\* C10: a wheel zoom, clamped or not, leaves the world point under its anchor
\* where it was.
C10_AnchorPreserved ==
    [][(nViewOps' = nViewOps + 1 /\ handleWheel)
          => \A m \in WheelAnchors, f \in WheelFactors :
                 viewTransform' = WheelUpdate(viewTransform, RInt(m.x), RInt(m.y),
                                              container.w, container.h, f)
                 => WorldUnder(viewTransform', RInt(m.x), RInt(m.y),
                               container.w, container.h)
                    = WorldUnder(viewTransform, RInt(m.x), RInt(m.y),
                                 container.w, container.h)]_vars

\* a wheel zoom about an off-centre anchor has been clamped at 0.1
C10_Witness ==
    /\ viewTransform.k = Rat(1, 10)
    /\ viewTransform.x # RInt(0)
    /\ nViewOps = 1
    /\ nPointerOps = 0

\* this step is a commit whose Handle Download effect saved a file
ExportStep == downloadState.active /\ Len(saved') = Len(saved) + 1

\* the file this step saved
Exported == saved'[Len(saved')]

\* C11: an export draws every point of the trace as the last completed frame
\* (or clear) left it, in append order and unstrided, one point per completed
\* sub-step, and leaves the trace, t, u, phi and the view transform unchanged.
C11_ExportSnapshot ==
    [][ExportStep
          => /\ Exported.image.polyline = pointsRef
             /\ Len(Exported.image.polyline) * dt = angleRef
             /\ UNCHANGED <<simVars, viewTransform>>]_vars

\* a full trace exported at a scale at which the live frame strides
C11_Witness ==
    /\ saved # <<>>
    /\ Len(saved[1].image.polyline) > 5
    /\ saved[1].image.polyline = pointsRef
    /\ RLt(saved[1].inputs.transform.k, Rat(1, 5))

C13_ExportDeterministic ==
    \A i, j \in DOMAIN saved :
        saved[i].inputs = saved[j].inputs => saved[i].image = saved[j].image

\* the part of C13 every run satisfies: exports that agree on those inputs and
\* on the pixel size of the trace canvas have identical image content, whatever
\* their timestamps and the play state
ExportDependsOnInputsAndSize ==
    \A i, j \in DOMAIN saved :
        (/\ saved[i].inputs = saved[j].inputs
         /\ saved[i].image.width = saved[j].image.width
         /\ saved[i].image.height = saved[j].image.height)
        => saved[i].image = saved[j].image

\* two exports of the same trace, config, view transform, theme and annotation
\* flag, both of a canvas with pixels, whose images differ
C13_Witness ==
    \E i, j \in DOMAIN saved :
        /\ saved[i].inputs = saved[j].inputs
        /\ saved[i].image.width > 0
        /\ saved[j].image.width > 0
        /\ saved[i].image # saved[j].image

\* C14: every export surface is allocated at the fixed target width of 3000
\* pixels, whatever the width of the live canvas.
C14_FixedTargetWidth ==
    \A i \in DOMAIN saved : saved[i].image.width = 3000

\* what the export does instead: the surface has the pixel size of the live trace
\* canvas at the time of the export, drawn at the live scale k * dpr on both axes
ExportTakesCanvasSize ==
    [][ExportStep
          => /\ Exported.image.width = canvas.w
             /\ Exported.image.height = canvas.h
             /\ Exported.image.sk = RMul(viewTransform.k, RInt(Dpr))]_vars

\* C15: an updateConfig call on outerRadius or innerRadius leaves numerator and
\* denominator undefined; a call on any other key leaves both as they were.
C15_RatioHintInvalidation ==
    [][\A key \in {e[1] : e \in ConfigEdits} :
          (nEdits' = nEdits + 1 /\ lastEdit' = key)
          => IF key \in {"outerRadius", "innerRadius"}
             THEN /\ config'.numerator = Undefined
                  /\ config'.denominator = Undefined
             ELSE /\ config'.numerator = config.numerator
                  /\ config'.denominator = config.denominator]_vars

\* the first edit of a run set the outer radius of a config that carried a hint
C15_Witness ==
    /\ nEdits = 1
    /\ lastEdit = "outerRadius"
    /\ config.outerRadius = 150 * 100
    /\ config.numerator = Undefined
    /\ config.denominator = Undefined
    /\ rConfig.numerator # Undefined
    /\ rConfig.denominator # Undefined

\* C17: once a wheel, pinch, pan or zoom-button handler has written the view
\* transform, the transform a frame callback draws with is the most recent one
\* written; no frame draws with an older one.
C17_LastWriteWins ==
    [][(FrameStep /\ nViewOps > 0)
          => /\ transformRef = viewTransform
             /\ screen'.trace = Polyline(Len(pointsRef'), viewTransform.k)]_vars

\* what the frames do draw with: the transform of the last commit, which is the
\* handlers' latest once the render their write queued has been committed
FrameDrawsCommittedTransform ==
    [][FrameStep
          => /\ screen'.trace = Polyline(Len(pointsRef'), transformRef.k)
             /\ ~needsRender => transformRef = viewTransform]_vars

\* the results of n numeric steps from (t, u): RK4 on u, geometry at the new t
RECURSIVE NumericRun(_, _, _, _)
NumericRun(t, u, cfg, n) ==
    IF n = 0 THEN <<>>
    ELSE Only({ <<state>> \o NumericRun(t + dt, state.newU, cfg, n - 1)
                : state \in {calculatePhysicsStep(t, dt, u, cfg.outerRadius,
                                 cfg.innerRadius, cfg.penOffset,
                                 cfg.statorAspect, cfg.rotorAspect)} })

\* the results of n closed-form steps from t
ExactRun(t, cfg, n) ==
    [j \in 1..n |-> calculateExactStep(t + j * dt, cfg.outerRadius,
                                       cfg.innerRadius, cfg.penOffset)]

\* both aspects of cfg are within 0.005 of 1
WithinTolerance(cfg) ==
    /\ cfg.statorAspect > 995 /\ cfg.statorAspect < 1005
    /\ cfg.rotorAspect > 995 /\ cfg.rotorAspect < 1005

\* the points a step appended are the pen positions of run, in order
AppendedFrom(run) ==
    /\ Len(pointsRef') = Len(pointsRef) + Len(run)
    /\ \A j \in 1..Len(run) :
          pointsRef'[Len(pointsRef) + j] = [x |-> run[j].px, y |-> run[j].py]

\* the overlay gears was drawn from the engine state
OverlayFrom(gears, state) ==
    /\ gears.cx = state.cx /\ gears.cy = state.cy /\ gears.phi = state.phi
    /\ gears.px = state.px /\ gears.py = state.py
    /\ gears.contactX = state.contactX /\ gears.contactY = state.contactY

\* C19: the sub-steps of a frame are closed-form exact steps if and only if both
\* aspects of the config in effect in that frame are within 0.005 of 1, and RK4
\* numeric steps otherwise; the live gear overlay and the initial-state overlay
\* of an export take their geometry by the same predicate.
C19_ModeSelection ==
    [][/\ (FrameStep /\ lastFrame' = "played")
          => \E n \in {Len(pointsRef') - Len(pointsRef)} :
               IF WithinTolerance(rConfig)
               THEN /\ AppendedFrom(ExactRun(angleRef, rConfig, n))
                    /\ rotorParamRef' = rotorParamRef
               ELSE \E run \in {NumericRun(angleRef, rotorParamRef, rConfig, n)} :
                      /\ n > 0
                      /\ AppendedFrom(run)
                      /\ rotorParamRef' = run[n].newU
                      /\ rotorRotationRef' = run[n].phi
       /\ (FrameStep /\ screen'.gears.shown)
          => OverlayFrom(screen'.gears,
                 IF WithinTolerance(rConfig)
                 THEN calculateExactStep(angleRef', rConfig.outerRadius,
                          rConfig.innerRadius, rConfig.penOffset)
                 ELSE getGeometry(angleRef', rotorParamRef', rConfig.outerRadius,
                          rConfig.innerRadius, rConfig.penOffset,
                          rConfig.statorAspect, rConfig.rotorAspect))
       /\ (ExportStep /\ Exported.image.gears.shown)
          => \E state \in
                 { IF WithinTolerance(config)
                   THEN calculateExactStep(0, config.outerRadius,
                            config.innerRadius, config.penOffset)
                   ELSE getGeometry(0, 0, config.outerRadius, config.innerRadius,
                            config.penOffset, config.statorAspect,
                            config.rotorAspect) } :
                 /\ Exported.image.gears.rotor.cx = state.cx
                 /\ Exported.image.gears.rotor.cy = state.cy
                 /\ Exported.image.gears.rotor.phi = state.phi
                 /\ Exported.image.gears.pen.x = state.px
                 /\ Exported.image.gears.pen.y = state.py
                 /\ Exported.image.gears.contact.x = state.contactX
                 /\ Exported.image.gears.contact.y = state.contactY]_vars

\* frames have stepped a config with one aspect 0.004 above 1 in exact mode (the
\* rotor parameter is still 0) and drawn its gears
C19_Witness ==
    /\ rConfig.statorAspect = 1004
    /\ lastFrame = "played"
    /\ Len(pointsRef) > 1
    /\ rotorParamRef = 0
    /\ screen.gears.shown
    /\ screen.trace # <<>>

\* the distance the fixed-point arithmetic of this model and an aspect
\* eps thousandths away from 1 may put between the two modes, in hundredths
Tolerance(eps) == 75 + 40 * eps

\* the distance of two angles on the circle, in micro-radians
AngleBetween(a, b) == Min2((a - b) % TWO_PI, (b - a) % TWO_PI)

\* the state the numeric mode has reached and the closed form at the same t
NumericState ==
    getGeometry(angleRef, rotorParamRef, rConfig.outerRadius, rConfig.innerRadius,
                rConfig.penOffset, rConfig.statorAspect, rConfig.rotorAspect)
ExactState ==
    calculateExactStep(angleRef, rConfig.outerRadius, rConfig.innerRadius,
                       rConfig.penOffset)

\* C18: after every numeric step from (t, u) = (0, 0), with both aspects 1 the
\* pen, the rotor centre and the contact point are those of the closed form at
\* the same t and phi is the same angle modulo 2 * pi, up to the resolution of
\* the arithmetic; with aspects up to 0.1 away from 1 the distance to the closed
\* form is bounded in proportion to that difference, so it vanishes with it.
C18_NumericMatchesExact ==
    (~framePending /\ pointsRef # <<>>)
    => \E num \in {NumericState}, ex \in {ExactState},
          eps \in {Max2(Abs(rConfig.statorAspect - 1000),
                        Abs(rConfig.rotorAspect - 1000))} :
         /\ pointsRef[Len(pointsRef)] = [x |-> num.px, y |-> num.py]
         /\ rotorRotationRef = num.phi
         /\ eps <= 100
            => /\ Abs(num.px - ex.px) <= Tolerance(eps)
               /\ Abs(num.py - ex.py) <= Tolerance(eps)
               /\ Abs(num.cx - ex.cx) <= Tolerance(eps)
               /\ Abs(num.cy - ex.cy) <= Tolerance(eps)
               /\ Abs(num.contactX - ex.contactX) <= Tolerance(eps)
               /\ Abs(num.contactY - ex.contactY) <= Tolerance(eps)
         /\ eps = 0 => AngleBetween(num.phi, ex.phi) <= 10000

\* the numeric mode has taken two circles past a quarter turn of the stator
\* angle and a half turn of the rotor, and its pen is where the closed form is
C18_Witness ==
    /\ ~framePending
    /\ rConfig.statorAspect = 1000 /\ rConfig.rotorAspect = 1000
    /\ angleRef > HALF_PI
    /\ rotorParamRef > PI
    /\ Abs(NumericState.px - ExactState.px) <= Tolerance(0)
    /\ Abs(NumericState.py - ExactState.py) <= Tolerance(0)

\* |innerC / outerC - a.n / a.d| <= |innerC / outerC - b.n / b.d|, multiplied out
NoFarther(innerC, outerC, a, b) ==
    Abs(innerC * a.d - a.n * outerC) * b.d <= Abs(innerC * b.d - b.n * outerC) * a.d

\* C16: the ratio an annotated export shows is the stored hint when numerator
\* and denominator are both set; otherwise it is a pair (n, d), 1 <= d <= 1000,
\* no farther from rotor circumference / stator circumference than any n / d
\* with d in 1..1000 (for each d the two integers n next to ratio * d are the
\* closest), with the smallest d among the closest; for R = 150, r = 52 and two
\* circles it is no farther from the ratio than 26 / 75.
C16_RatioShown ==
    [][(ExportStep /\ Exported.image.stats.shown)
          => \E shown \in {Exported.image.stats.lines.ratio},
                innerC \in {calculateEllipseCircumference(config.innerRadius,
                                                          config.rotorAspect)},
                outerC \in {calculateEllipseCircumference(config.outerRadius,
                                                          config.statorAspect)} :
               IF config.numerator # Undefined /\ config.denominator # Undefined
               THEN shown = [n |-> config.numerator, d |-> config.denominator]
               ELSE /\ shown.d \in 1..1000
                    /\ \A d \in 1..1000 :
                          \A n \in {(innerC * d) \div outerC,
                                    (innerC * d) \div outerC + 1} :
                             /\ NoFarther(innerC, outerC, shown, [n |-> n, d |-> d])
                             /\ NoFarther(innerC, outerC, [n |-> n, d |-> d], shown)
                                => shown.d <= d
                    /\ (/\ config.outerRadius = 150 * 100
                        /\ config.innerRadius = 52 * 100
                        /\ config.statorAspect = 1000
                        /\ config.rotorAspect = 1000)
                       => NoFarther(innerC, outerC, shown, [n |-> 26, d |-> 75])]_vars

\* an annotated export of R = 150, r = 52, two circles and no hint shows 26 / 75
C16_Witness ==
    /\ saved # <<>>
    /\ saved[1].inputs.config.outerRadius = 150 * 100
    /\ saved[1].inputs.config.innerRadius = 52 * 100
    /\ saved[1].inputs.config.statorAspect = 1000
    /\ saved[1].inputs.config.rotorAspect = 1000
    /\ saved[1].inputs.config.numerator = Undefined
    /\ saved[1].image.stats.shown
    /\ saved[1].image.stats.lines.ratio = [n |-> 26, d |-> 75]

\* C20: the polyline a frame draws through a non-empty trace starts at the
\* first point, visits indices in non-decreasing order and ends at the last
\* point; at a scale of 0.2 or more it visits every point, below 0.2 it visits
\* index 0, then 1, 6, 11, ... and finally the last index.
C20_PolylineCoversTrace ==
    [][(FrameStep /\ pointsRef' # <<>>)
          => \E line \in {screen'.trace}, len \in {Len(pointsRef')} :
               /\ line[1] = 0
               /\ line[Len(line)] = len - 1
               /\ \A i \in 1..(Len(line) - 1) : line[i] <= line[i + 1]
               /\ IF RLeq(Rat(1, 5), transformRef.k)
                  THEN line = [i \in 1..len |-> i - 1]
                  ELSE \E strided \in {(len + 3) \div 5} :
                         line = <<0>> \o [j \in 1..strided |-> 5 * j - 4]
                                      \o <<len - 1>>]_vars

\* a frame at a scale below 0.2 has drawn a trace of 17 points through the
\* indices 0, 1, 6, 11, 16 and the last one, 16, again
C20_Witness ==
    /\ Len(pointsRef) = 17
    /\ RLt(transformRef.k, Rat(1, 5))
    /\ screen.trace = <<0, 1, 6, 11, 16, 16>>

\* C21: the transform changes only while a pointer is down; a move of the one
\* pointer that is down adds that pointer's displacement since its previous
\* event to the offset and leaves k unchanged; so whenever one pointer is down
\* alone, the offset is the offset it started from plus the pointer's total
\* displacement since, and k is the k it started from.
C21_DragPan ==
    [][/\ viewTransform' # viewTransform => pointersRef # NoPointers
       /\ (/\ Cardinality(DOMAIN pointersRef) = 1
           /\ DOMAIN pointersRef' = DOMAIN pointersRef
           /\ nViewOps' = nViewOps + 1)
          => \E id \in DOMAIN pointersRef :
               /\ viewTransform'.x
                    = RAdd(viewTransform.x,
                           RInt(pointersRef'[id].x - pointersRef[id].x))
               /\ viewTransform'.y
                    = RAdd(viewTransform.y,
                           RInt(pointersRef'[id].y - pointersRef[id].y))
               /\ viewTransform'.k = viewTransform.k
       /\ Cardinality(DOMAIN pointersRef') = 1
          => \E id \in DOMAIN pointersRef' :
               /\ viewTransform'.x
                    = RAdd(panOrigin'.x,
                           RInt(pointersRef'[id].x - panOrigin'.pos.x))
               /\ viewTransform'.y
                    = RAdd(panOrigin'.y,
                           RInt(pointersRef'[id].y - panOrigin'.pos.y))
               /\ viewTransform'.k = panOrigin'.k]_vars

\* one pointer went down and has moved three times, ending away from where it
\* started in both directions
C21_Witness ==
    /\ nPointerOps = 1
    /\ nViewOps = 3
    /\ Cardinality(DOMAIN pointersRef) = 1
    /\ viewTransform.x # panOrigin.x
    /\ viewTransform.y # panOrigin.y
    /\ viewTransform.k = panOrigin.k

\* this step is a pointer move handled with n pointers down
MoveWith(n) ==
    /\ nViewOps' = nViewOps + 1
    /\ movedPointer' \in DOMAIN pointersRef
    /\ Cardinality(DOMAIN pointersRef) = n

\* the pointer that moved in this step, the other pointer of the pair, and the
\* distance between them after the move
MovedPairs == { <<movedPointer', o>> : o \in DOMAIN pointersRef \ {movedPointer'} }

PairDistance(pair) ==
    Hypot(pointersRef'[pair[2]].x - pointersRef'[pair[1]].x,
          pointersRef'[pair[2]].y - pointersRef'[pair[1]].y)

\* the transform scaled by dist / prevDist, clamped, about the midpoint of pair
ZoomedAboutMidpoint(pair, dist, prevDist) ==
    ZoomAbout(viewTransform,
              Rat(pointersRef'[pair[1]].x + pointersRef'[pair[2]].x, 2),
              Rat(pointersRef'[pair[1]].y + pointersRef'[pair[2]].y, 2),
              container.w, container.h,
              ClampK(RMul(viewTransform.k, Rat(dist, prevDist))))

\* the moves with one pointer and with three or more, and the first move of a
\* pinch: pan, nothing, and the distance recorded with the transform untouched
OtherMoves ==
    /\ MoveWith(1)
       => \E id \in DOMAIN pointersRef :
            viewTransform' = PanUpdate(viewTransform,
                                       pointersRef'[id].x - pointersRef[id].x,
                                       pointersRef'[id].y - pointersRef[id].y)
    /\ (MoveWith(3) \/ (nViewOps' = nViewOps + 1
                        /\ movedPointer' \notin DOMAIN pointersRef))
       => UNCHANGED <<viewTransform, gestureVars>>
    /\ (MoveWith(2) /\ prevPinchDistRef = Null)
       => \E pair \in MovedPairs :
            /\ viewTransform' = viewTransform
            /\ prevPinchDistRef' = PairDistance(pair)
    /\ nPointerOps' = nPointerOps + 1
       => prevPinchDistRef' = Null /\ viewTransform' = viewTransform

\* C22: with exactly two pointers down, a move scales k by the current
\* distance of the pointers over the recorded one, clamped to [0.1, 20], about
\* their midpoint, so that over a pinch without clamping the scale has grown by
\* the last distance over the first recorded one; the first move after a
\* pointer down or up only records the distance; with one pointer a move pans,
\* with three or more it changes nothing.
C22_PinchZoom ==
    [][/\ OtherMoves
       /\ (MoveWith(2) /\ prevPinchDistRef # Null /\ prevPinchDistRef > 0)
          => \E pair \in MovedPairs :
               /\ viewTransform'
                    = ZoomedAboutMidpoint(pair, PairDistance(pair), prevPinchDistRef)
               /\ prevPinchDistRef' = PairDistance(pair)
       /\ (/\ Cardinality(DOMAIN pointersRef') = 2
           /\ prevPinchDistRef' # Null
           /\ pinchOrigin'.dist > 0
           /\ ~pinchOrigin'.clamped)
          => RMul(viewTransform'.k, RInt(pinchOrigin'.dist))
               = RMul(pinchOrigin'.k, RInt(prevPinchDistRef'))]_vars

\* what the pinch branch does: it scales only when the distance has changed by
\* more than 0.5 % since the last move, and records the distance in either case
PinchZoomBeyondThreshold ==
    [][/\ OtherMoves
       /\ (MoveWith(2) /\ prevPinchDistRef # Null /\ prevPinchDistRef > 0)
          => \E pair \in MovedPairs :
               \E dist \in {PairDistance(pair)} :
                 /\ viewTransform'
                      = IF 1000 * Abs(dist - prevPinchDistRef) > 5 * prevPinchDistRef
                        THEN ZoomedAboutMidpoint(pair, dist, prevPinchDistRef)
                        ELSE viewTransform
                 /\ prevPinchDistRef' = dist]_vars

\* a pinch that has opened from the first recorded distance without changing
\* the scale
C22_Witness ==
    /\ Cardinality(DOMAIN pointersRef) = 2
    /\ prevPinchDistRef # Null
    /\ prevPinchDistRef > pinchOrigin.dist
    /\ pinchOrigin.dist > 0
    /\ ~pinchOrigin.clamped
    /\ viewTransform.k = pinchOrigin.k

\* the largest distance from the centre the drawing reaches, in hundredths
MaxExtent(cfg) ==
    LET centre == Abs(cfg.outerRadius - cfg.innerRadius)
    IN  Max2(Max2(centre + cfg.penOffset,
                  IF cfg.showGears
                  THEN centre + Scaled(cfg.innerRadius, Max2(1000, cfg.rotorAspect))
                  ELSE 0),
             Scaled(cfg.outerRadius, Max2(1000, cfg.statorAspect)))

\* 0.9 * (min(width, height) / 2) / maxExtent
FitScale(cfg, win) == Rat(45 * Min2(win.w, win.h), MaxExtent(cfg))

\* C23: Reset View sets the offset to (0, 0) and the scale to
\* 0.9 * (min(width, height) / 2) / maxExtent clamped to [0.1, 5], where
\* maxExtent is the largest of |R - r| + d, |R - r| + r * max(1, rotorAspect)
\* if the gears are shown, and R * max(1, statorAspect); unless the scale was
\* clamped up to 0.1, maxExtent * k is at most 0.45 * min(width, height).
C23_ResetView ==
    resetInput.done
      => /\ viewTransform
              = Transform(RInt(0), RInt(0),
                          RMax(Rat(1, 10), RMin(RInt(5), FitScale(config, resetInput))))
         /\ RLeq(Rat(1, 10), FitScale(config, resetInput))
              => RLeq(RMul(Rat(MaxExtent(config), 100), viewTransform.k),
                      Rat(45 * Min2(resetInput.w, resetInput.h), 100))

\* Reset View after a zoom, on a drawing whose rotor reaches farthest, with a
\* scale inside the clamp
C23_Witness ==
    /\ resetInput.done
    /\ nViewOps >= 2
    /\ config.showGears
    /\ MaxExtent(config) > Abs(config.outerRadius - config.innerRadius) + config.penOffset
    /\ MaxExtent(config) > Scaled(config.outerRadius, Max2(1000, config.statorAspect))
    /\ RLt(Rat(1, 10), viewTransform.k)
    /\ RLt(viewTransform.k, RInt(5))

\* C24: in every state observable between frames the stator angle t is dt
\* times the number of points of the trace, whatever the interleaving of
\* frames, pauses, speed changes, config edits that switch the mode, and clears.
C24_AngleCountsPoints == angleRef = dt * Len(pointsRef)

\* a trace drawn numerically after an edit of the aspects and a clear of an
\* earlier trace, then a frame drawn while paused
C24_Witness ==
    /\ nClears = 1
    /\ clearedLen > 0
    /\ nEdits = 1
    /\ ~isCircular(rConfig)
    /\ Len(pointsRef) > 0
    /\ lastFrame = "paused"

\* C25: at most one animation-frame callback is pending at any time: the
\* callback requested last is the only one pending, whatever was pending is
\* cancelled or has run before a new one is requested, so there are never two
\* loops; and a display frame performs at most ceil(5 * speed) sub-steps.
C25_SingleLoop ==
    [][/\ Cardinality(rafQueue') <= 1
       /\ \A q \in rafQueue' : q.id = requestRef'
       /\ requestRef' # requestRef => rafQueue' \cap rafQueue = {}
       /\ Len(pointsRef') <= Len(pointsRef) + CeilFiveTimes(rConfig.speed)]_vars

\* the loop restarted by a speed edit between two frames that both drew
C25_Witness ==
    /\ nEdits = 1
    /\ rConfig.speed = 1
    /\ Len(pointsRef) = 6
    /\ lastFrame = "played"
    /\ Cardinality(rafQueue) = 1
    /\ requestRef >= 4

\* this step is a frame that simulated, in exact or in numeric mode
ExactFrame == FrameStep /\ lastFrame' = "played" /\ WithinTolerance(rConfig)
NumericFrame == FrameStep /\ lastFrame' = "played" /\ ~WithinTolerance(rConfig)

\* C26: the sub-steps of exact mode advance t and leave the rotor parameter u
\* unchanged; only numeric sub-steps and a clear change u; so after an edit of
\* the aspects from circular to elliptical without a clear the numeric
\* integration resumes from the u the last numeric step left (0 if there was
\* none), not from a u that matches t.
C26_RotorParameter ==
    [][/\ ExactFrame
          => /\ angleRef' = angleRef + Steps(rConfig) * dt
             /\ rotorParamRef' = rotorParamRef
       /\ rotorParamRef' # rotorParamRef
          => NumericFrame \/ (ClearApplied /\ rotorParamRef' = 0)
       /\ NumericFrame
          => \E run \in {NumericRun(angleRef, rotorParamRef, rConfig,
                                    Steps(rConfig))} :
               /\ AppendedFrom(run)
               /\ rotorParamRef' = run[Len(run)].newU]_vars

\* after exact frames and an edit of an aspect, one numeric step has started
\* from u = 0 at a stator angle that is not 0
C26_Witness ==
    /\ nEdits = 1
    /\ nClears = 0
    /\ lastEdit \in {"statorAspect", "rotorAspect"}
    /\ ~WithinTolerance(rConfig)
    /\ lastFrame = "played"
    /\ angleRef >= 3 * dt
    /\ rotorParamRef # 0
    /\ rotorParamRef = NumericRun(angleRef - dt, 0, rConfig, 1)[1].newU

\* this step is a commit that acknowledged an export request
Acknowledged == downloadState.active /\ ~downloadState'.active

\* C27: every export request leads to exactly one image handed to the save
\* step and then to downloadState inactive again: no request stays active
\* forever, none is acknowledged without an image, none produces two images.
C27_ExportHandshake ==
    /\ [][/\ Acknowledged => Len(saved') = Len(saved) + 1
          /\ saved' # saved => Acknowledged]_vars
    /\ (downloadState.active ~> ~downloadState.active)

\* what holds of the handshake: every request is acknowledged, one
\* acknowledgement hands over at most one image, and nothing else saves a file
ExportAcknowledged ==
    /\ [][/\ Acknowledged => Len(saved') \in {Len(saved), Len(saved) + 1}
          /\ saved' # saved => Acknowledged]_vars
    /\ (downloadState.active ~> ~downloadState.active)

\* two requests have been acknowledged and one file has been saved
C27_Witness ==
    /\ nSignals = 2
    /\ ~downloadState.active
    /\ ~needsRender
    /\ Len(saved) = 1
    /\ pointsRef # <<>>
    /\ nClears = 0
    /\ nEdits = 0
    /\ rIsPlaying

\* the steps the fairness condition of HandshakeSpec is about are its commits
CommitStepIsCommit == [][CommitStep <=> HandshakeCommit]_vars

\* C28: every clear signal is eventually applied, exactly once, and
\* acknowledged: the trace and (t, u, phi) are reset and shouldClear returns to
\* false; the points appended between the signal and its application go with
\* the reset, and no later frame applies the same clear again.
C28_ClearHandshake ==
    /\ [][/\ (shouldClear /\ ~shouldClear')
             => /\ nClears' = nClears + 1
                /\ pointsRef' = <<>>
                /\ angleRef' = 0 /\ rotorParamRef' = 0 /\ rotorRotationRef' = 0
          /\ nClears' # nClears
             => shouldClear /\ ~shouldClear' /\ nClears' = nClears + 1
          /\ FrameStep => IsPrefix(pointsRef, pointsRef')]_vars
    /\ (shouldClear ~> ~shouldClear)

\* a clear has discarded the points of a frame, and a later frame has drawn on
C28_Witness ==
    /\ nClears = 1
    /\ clearedLen > 0
    /\ ~shouldClear
    /\ ~needsRender
    /\ lastFrame = "played"
    /\ pointsRef # <<>>
    /\ nEdits = 0

\* the values lastEdit takes in the random-pattern handlers
RandomPatterns == {"randomize", "randomRatio", "randomCurve"}

\* a step of handleRandomize, handleRandomRatio or
\* handleRandomRatioAndEccentricity
RandomPatternStep == nEdits' = nEdits + 1 /\ lastEdit' \in RandomPatterns

\* the trace is the pen positions of the first Len(pointsRef) sub-steps of cfg
\* from t = 0 (and u = 0)
TraceFromZero(cfg) ==
    \E run \in {IF WithinTolerance(cfg)
                THEN ExactRun(0, cfg, Len(pointsRef))
                ELSE NumericRun(0, 0, cfg, Len(pointsRef))} :
        \A j \in 1..Len(pointsRef) :
            pointsRef[j] = [x |-> run[j].px, y |-> run[j].py]

\* C29: a random-pattern action (randomize, random ratio, random curve) queues
\* the new config, the clear request and isPlaying = true in one step, so that
\* one commit serves the three; the commit that applies that clear renders the
\* new config with isPlaying true and empties the trace at t = 0; from then on,
\* until the next edit of the config, every point of the trace is a sub-step of
\* the new config counted from t = 0, and none of the previous config is left.
C29_RandomPattern ==
    /\ [][/\ RandomPatternStep
             => /\ shouldClear' /\ isPlaying' /\ cfgDirty' /\ needsRender'
                /\ rConfig' = rConfig /\ UNCHANGED simVars
          /\ (ClearApplied /\ cfgDirty /\ lastEdit \in RandomPatterns)
             => /\ rConfig' = config /\ config' = config
                /\ isPlaying' /\ rIsPlaying'
                /\ ~cfgDirty' /\ ~shouldClear'
                /\ pointsRef' = <<>> /\ angleRef' = 0 /\ rotorParamRef' = 0]_vars
    /\ []((lastEdit \in RandomPatterns /\ ~cfgDirty)
             => rConfig = config /\ ~shouldClear /\ TraceFromZero(rConfig))

\* paused with a trace on screen, Random ratio was pressed: the old points went
\* with the clear, play was forced and a frame has drawn points of the new
\* config
C29_Witness ==
    /\ lastEdit = "randomRatio"
    /\ nEdits = 1
    /\ nSignals = 1
    /\ nClears = 1
    /\ clearedLen > 0
    /\ ~cfgDirty
    /\ ~needsRender
    /\ isPlaying
    /\ lastFrame = "played"
    /\ pointsRef # <<>>

\* cfg holds both parts of the hint (config.numerator && config.denominator)
HasHint(cfg) == cfg.numerator # Undefined /\ cfg.denominator # Undefined

\* the rotor/stator circumference ratio of cfg is n / d, to the resolution of
\* the hundredths the radii are kept in (a relative error of at most 1 %)
CircumferenceRatioIs(cfg, n, d) ==
    \E innerC \in {calculateEllipseCircumference(cfg.innerRadius, cfg.rotorAspect)},
       outerC \in {calculateEllipseCircumference(cfg.outerRadius, cfg.statorAspect)} :
        RatioError(innerC, outerC, n, d) * 100 <= n * outerC

\* C30: whenever the config holds both a numerator and a denominator, its
\* rotor/stator circumference ratio equals numerator/denominator, whatever
\* control operations (set-ratio with its clamp, random ratio, random curve,
\* random config, aspect edits, radius edits) came before; so the ratio an
\* annotated export prints for such a config is the ratio of the geometry.
C30_HintConsistent ==
    HasHint(config)
       => /\ ratioText(config) = [n |-> config.numerator, d |-> config.denominator]
          /\ CircumferenceRatioIs(config, ratioText(config).n, ratioText(config).d)

\* where the hint does agree with the geometry: right after a set-ratio, random
\* ratio or random curve whose radius the clamp left alone; and a radius edit
\* drops the hint
HintOfUnclampedRatio ==
    [][/\ (/\ nEdits' = nEdits + 1
           /\ lastEdit' \in {"ratio", "randomRatio", "randomCurve"}
           /\ config'.innerRadius \notin {10 * 100, 400 * 100})
          => HasHint(config')
             /\ CircumferenceRatioIs(config', config'.numerator, config'.denominator)
       /\ (nEdits' = nEdits + 1 /\ lastEdit' \in {"outerRadius", "innerRadius"})
          => ~HasHint(config')]_vars

\* Apply was pressed with 5/1 on a stator of radius 100: the rotor radius was
\* clamped to 400 and the config carries the hint 5/1
C30_Witness ==
    /\ lastEdit = "ratio"
    /\ config.numerator = 5
    /\ config.denominator = 1
    /\ config.outerRadius = 100 * 100
    /\ config.innerRadius = 400 * 100
    /\ config.statorAspect = 1000
    /\ config.rotorAspect = 1000
    /\ ~CircumferenceRatioIs(config, 5, 1)

====
